---- MODULE Spec2Model ----
(***************************************************************************)
(* Model of takopi's heartbeat task executor and its collaborators:        *)
(*   - heartbeat/notify.py   escape-aware chunking and message formatting  *)
(*   - events.EventFactory   resume-token invariant of one run             *)
(*   - heartbeat/executor.py run_heartbeat                                 *)
(*   - heartbeat/state.py    load_state / save_state                       *)
(*   - cli/heartbeat.py      the heartbeat command (_run_heartbeat._run)   *)
(* Strings are sequences of one-character strings; Python's None is the    *)
(* value None.                                                             *)
(***************************************************************************)
EXTENDS Integers, Sequences, FiniteSets, TLC

None == "None"

\* None in a position typed `ResumeToken | None`
NoToken == [engine |-> None, value |-> None]

\* None in a position typed `str | None`, strings being sequences
NoneSeq == <<None>>

\* None in a position typed `int | None` (never a valid index)
NoneInt == 0 - 1

\* ------------------------------------------------------------------------
\* Bounds of the model
\* ------------------------------------------------------------------------
MaxTextLen == 4
MaxBudget == 7
MaxCalls == 4
MaxEvents == 2
LongAnswerLen == 700
MaxBranchLen == 4
MaxResolves == 2
MaxSignalCalls == 3
MaxHistory == 4
MaxKeep == 3
MaxRunsLen == 2
MaxWords == 2
MaxClassifications == 2
MaxSends == 2
MaxPollSeconds == 31
TicksPerSecond == 2
QuotedNameLen == 200
MaxSeqRuns == 52

\* ------------------------------------------------------------------------
\* Generic helpers on sequences (Python slicing, join, repetition)
\* ------------------------------------------------------------------------
\* Python s[a:b] with 0 <= a <= b <= len(s)
Slice(s, a, b) == SubSeq(s, a + 1, b)

\* Python c * n
Rep(c, n) == [i \in 1..n |-> c]

RECURSIVE Concat(_)
Concat(ss) == IF ss = <<>> THEN <<>> ELSE Head(ss) \o Concat(Tail(ss))

Max(a, b) == IF a >= b THEN a ELSE b

Last(s) == s[Len(s)]

\* Python str.replace(old, new) for a one-character `old`, over s[lo..hi]
RECURSIVE ReplaceRange(_, _, _, _, _)
ReplaceRange(s, old, new, lo, hi) ==
    IF lo > hi THEN <<>>
    ELSE IF lo = hi THEN (IF s[lo] = old THEN new ELSE <<s[lo]>>)
    ELSE LET mid == (lo + hi) \div 2
         IN  ReplaceRange(s, old, new, lo, mid)
                 \o ReplaceRange(s, old, new, mid + 1, hi)

str_replace(s, old, new) == ReplaceRange(s, old, new, 1, Len(s))

\* html.escape(s, quote=True): five replacements, the ampersand first
html_escape(s) ==
    LET s1 == str_replace(s, "&", <<"&", "a", "m", "p", ";">>)
        s2 == str_replace(s1, "<", <<"&", "l", "t", ";">>)
        s3 == str_replace(s2, ">", <<"&", "g", "t", ";">>)
        s4 == str_replace(s3, "\"", <<"&", "q", "u", "o", "t", ";">>)
    IN  str_replace(s4, "'", <<"&", "#", "x", "2", "7", ";">>)

\* The character references html.unescape resolves in escaped text
Entities ==
    { [name |-> <<"a", "m", "p", ";">>, ch |-> "&"],
      [name |-> <<"l", "t", ";">>, ch |-> "<"],
      [name |-> <<"g", "t", ";">>, ch |-> ">"],
      [name |-> <<"q", "u", "o", "t", ";">>, ch |-> "\""],
      [name |-> <<"#", "x", "2", "7", ";">>, ch |-> "'"] }

StartsWith(s, prefix) ==
    /\ Len(s) >= Len(prefix)
    /\ SubSeq(s, 1, Len(prefix)) = prefix

\* html.unescape: each reference is resolved once, left to right
RECURSIVE html_unescape(_)
html_unescape(s) ==
    IF s = <<>> THEN <<>>
    ELSE IF Head(s) = "&"
              /\ \E e \in Entities : StartsWith(Tail(s), e.name)
    THEN LET e == CHOOSE e \in Entities : StartsWith(Tail(s), e.name)
         IN  <<e.ch>> \o html_unescape(SubSeq(s, Len(e.name) + 2, Len(s)))
    ELSE <<Head(s)>> \o html_unescape(Tail(s))

\* ------------------------------------------------------------------------
\* heartbeat/notify.py
\* ------------------------------------------------------------------------
TELEGRAM_MESSAGE_MAX_CHARS == 4096

PRE_OPEN == <<"<", "p", "r", "e", ">">>
PRE_CLOSE == <<"<", "/", "p", "r", "e", ">">>

_PRE_OVERHEAD_CHARS == Len(PRE_OPEN \o PRE_CLOSE)

\* Mutant: the single quote counted as five characters (as for &#39;)
_html_escaped_len_quote5(ch) ==
    CASE ch = "&" -> 5
      [] ch \in {"<", ">"} -> 4
      [] ch = "\"" -> 6
      [] ch = "'" -> 5
      [] OTHER -> 1

_html_escaped_len(ch) ==
    CASE ch = "&" -> 5
      [] ch \in {"<", ">"} -> 4
      [] ch \in {"\"", "'"} -> 6
      [] OTHER -> 1

\* One pass of the inner `while end < len(text)` loop of _split_for_html_pre.
\* st.broke records that the loop was left (by `break` or by its condition).
InnerLoopBody(txt, max, st) ==
    IF st.broke \/ ~(st.end < Len(txt))
    THEN [st EXCEPT !.broke = TRUE]
    ELSE LET ch == txt[st.end + 1]
             ch_escaped_len == _html_escaped_len(ch)
         IN  IF st.escaped_len + ch_escaped_len > max
             THEN [st EXCEPT !.broke = TRUE]
             ELSE [st EXCEPT !.escaped_len = st.escaped_len + ch_escaped_len,
                             !.end = st.end + 1,
                             !.last_break =
                                 IF ch = "\n" THEN st.end + 1 ELSE @,
                             !.last_break_escaped_len =
                                 IF ch = "\n"
                                 THEN st.escaped_len + ch_escaped_len ELSE @]

\* n consecutive passes of the inner loop (split in halves to keep the
\* evaluation depth logarithmic; the passes are applied in order).
RECURSIVE InnerLoop(_, _, _, _)
InnerLoop(txt, max, st, n) ==
    IF st.broke \/ n = 0 THEN st
    ELSE IF n = 1 THEN InnerLoopBody(txt, max, st)
    ELSE LET h == n \div 2
         IN  InnerLoop(txt, max, InnerLoop(txt, max, st, h), n - h)

\* Mutant: the forced progress of `if end == start` is missing
ChunkEnd_noProgress(txt, max, start0) ==
    LET st0 == [escaped_len |-> 0, end |-> start0, last_break |-> NoneInt,
                last_break_escaped_len |-> 0, broke |-> FALSE]
        st == InnerLoop(txt, max, st0, (Len(txt) - start0) + 1)
    IN  IF st.end < Len(txt) /\ st.last_break # NoneInt
           /\ st.last_break > start0
        THEN st.last_break
        ELSE st.end

\* Mutant: the chunk always ends where the inner loop stopped
ChunkEnd_hardCut(txt, max, start0) ==
    LET st0 == [escaped_len |-> 0, end |-> start0, last_break |-> NoneInt,
                last_break_escaped_len |-> 0, broke |-> FALSE]
        st == InnerLoop(txt, max, st0, (Len(txt) - start0) + 1)
    IN  IF st.end = start0 THEN start0 + 1 ELSE st.end

\* One pass of the outer `while start < len(text)` loop: the index at which
\* the chunk that begins at `start` ends.
ChunkEnd(txt, max, start0) ==
    LET st0 == [escaped_len |-> 0, end |-> start0, last_break |-> NoneInt,
                last_break_escaped_len |-> 0, broke |-> FALSE]
        st == InnerLoop(txt, max, st0, (Len(txt) - start0) + 1)
    IN  IF st.end = start0 THEN start0 + 1
        ELSE IF st.end < Len(txt) /\ st.last_break # NoneInt
                /\ st.last_break > start0
        THEN st.last_break
        ELSE st.end

RECURSIVE SplitLoop(_, _, _, _)
SplitLoop(txt, max, start0, acc) ==
    IF ~(start0 < Len(txt)) THEN acc
    ELSE LET end == ChunkEnd(txt, max, start0)
         IN  SplitLoop(txt, max, end, Append(acc, Slice(txt, start0, end)))

_split_for_html_pre(txt, budget) ==
    IF txt = <<>> THEN <<>>
    ELSE SplitLoop(txt, Max(1, budget), 0, <<>>)

\* format_notification_messages, notify.py 160-167: one message per chunk
PreMessages(chunkList) ==
    [i \in DOMAIN chunkList |->
        PRE_OPEN \o html_escape(chunkList[i]) \o PRE_CLOSE]

\* msg.removeprefix("<pre>").removesuffix("</pre>") of a chunk message
PreBody(msg) == SubSeq(msg, Len(PRE_OPEN) + 1, Len(msg) - Len(PRE_CLOSE))

\* Python str.strip(): the text without leading and trailing whitespace
Whitespace == {" ", "\n", "\t", "\r"}

str_strip(s) ==
    LET lead == Cardinality({i \in DOMAIN s :
                    \A j \in 1..i : s[j] \in Whitespace})
        trail == Cardinality({i \in DOMAIN s :
                    \A j \in i..Len(s) : s[j] \in Whitespace})
    IN  IF lead = Len(s) THEN <<>>
        ELSE SubSeq(s, lead + 1, Len(s) - trail)

\* Python s.split("\n")
RECURSIVE split_lines(_)
split_lines(s) ==
    LET nl == {i \in DOMAIN s : s[i] = "\n"}
    IN  IF nl = {} THEN <<s>>
        ELSE LET i == CHOOSE i \in nl : \A j \in nl : i <= j
             IN  <<SubSeq(s, 1, i - 1)>>
                     \o split_lines(SubSeq(s, i + 1, Len(s)))

\* Python "\n".join(lines)
RECURSIVE join_lines(_)
join_lines(lines) ==
    IF lines = <<>> THEN <<>>
    ELSE IF Len(lines) = 1 THEN lines[1]
    ELSE lines[1] \o <<"\n">> \o join_lines(Tail(lines))

\* Python lines[-n:] for n >= 0 (lines[-0:] is the whole list)
PySuffix(lines, n) ==
    IF n = 0 \/ n >= Len(lines) THEN lines
    ELSE SubSeq(lines, Len(lines) - n + 1, Len(lines))

SUMMARY_LINES == 10

\* notify.py 18-24
_extract_summary(answer, summary_lines) ==
    IF answer = <<>> THEN <<>>
    ELSE LET all == split_lines(str_strip(answer))
             lines == SelectSeq(all, LAMBDA line : str_strip(line) # <<>>)
         IN  join_lines(IF Len(lines) > summary_lines
                        THEN PySuffix(lines, summary_lines) ELSE lines)

\* Decimal digits of a natural number
RECURSIVE Digits(_)
Digits(n) ==
    LET d == <<"0", "1", "2", "3", "4", "5", "6", "7", "8", "9">>
    IN  IF n < 10 THEN <<d[n + 1]>>
        ELSE Digits(n \div 10) \o <<d[(n % 10) + 1]>>

\* notify.py 131-138: f"{duration_s:.1f}s" below one minute, else f"{m}m{s}s"
\* (the durations of the model are whole tenths of a second)
DurationStr(duration_ms) ==
    IF duration_ms < 60000
    THEN Digits(duration_ms \div 1000) \o <<".">>
             \o Digits((duration_ms % 1000) \div 100) \o <<"s">>
    ELSE Digits(duration_ms \div 60000) \o <<"m">>
             \o Digits((duration_ms % 60000) \div 1000) \o <<"s">>

\* None in a position typed `dict | None`
NoUsage == [kind |-> None, has_cost |-> FALSE, cost |-> <<>>]

\* notify.py 140-144: the cost is kept already formatted to four decimals
CostStr(usage) ==
    IF usage.kind # None /\ usage.has_cost
    THEN <<" ", "(", "$">> \o usage.cost \o <<")">>
    ELSE <<>>

OK_EMOJI == "check"
FAIL_EMOJI == "cross"
ERROR_SLICE == 500

\* notify.py 129-155: the header message
HeaderMessage(name, result) ==
    LET status_emoji == IF result.ok THEN OK_EMOJI ELSE FAIL_EMOJI
        part1 == <<"<", "b", ">", status_emoji, " ">> \o html_escape(name)
                     \o <<"<", "/", "b", ">">>
        part2 == <<"D", "u", "r", "a", "t", "i", "o", "n", ":", " ">>
                     \o DurationStr(result.duration_ms) \o CostStr(result.usage)
        parts == <<part1, part2>>
        withErr ==
            IF result.error # NoneSeq /\ result.error # <<>>
            THEN Append(parts,
                     <<"<", "b", ">", "E", "r", "r", "o", "r", ":",
                       "<", "/", "b", ">", " ">>
                     \o html_escape(SubSeq(result.error, 1,
                            IF Len(result.error) < ERROR_SLICE
                            THEN Len(result.error) ELSE ERROR_SLICE)))
            ELSE parts
    IN  join_lines(withErr)

\* notify.py 122-169
format_notification_messages(name, result) ==
    LET summary == _extract_summary(result.answer, SUMMARY_LINES)
    IN  <<HeaderMessage(name, result)>>
        \o (IF summary # <<>>
            THEN PreMessages(_split_for_html_pre(summary,
                     TELEGRAM_MESSAGE_MAX_CHARS - _PRE_OVERHEAD_CHARS))
            ELSE <<>>)

\* ------------------------------------------------------------------------
\* heartbeat/state.py
\* ------------------------------------------------------------------------
MAX_RUNS == 50

\* No state file for a task
NoFile ==
    [exists |-> FALSE, session_id |-> None, last_run_at |-> NoneInt,
     runs |-> <<>>]

\* Variant that reads no usage
LoadRun_noUsage(r) ==
    [started_at |-> r.started_at, completed_at |-> r.completed_at,
     ok |-> r.ok, duration_ms |-> r.duration_ms, usage |-> NoUsage,
     error |-> r.error]

\* state.py 48-58: one run record read back from its JSON object
LoadRun(r) ==
    [started_at |-> r.started_at, completed_at |-> r.completed_at,
     ok |-> r.ok, duration_ms |-> r.duration_ms, usage |-> r.usage,
     error |-> r.error]

\* Python s.split(sep) for a one-character sep
RECURSIVE str_split(_, _)
str_split(s, sep) ==
    LET at == {i \in DOMAIN s : s[i] = sep}
    IN  IF at = {} THEN <<s>>
        ELSE LET i == CHOOSE i \in at : \A j \in at : i <= j
             IN  <<SubSeq(s, 1, i - 1)>>
                     \o str_split(SubSeq(s, i + 1, Len(s)), sep)

\* state.py 41, 90: HEARTBEAT_STATE_DIR / f"{name}.json", as the components
\* below the state directory (pathlib drops empty and "." components; a name
\* that begins with "/" replaces the directory)
StatePath(name) ==
    LET file == name \o <<".", "j", "s", "o", "n">>
        parts == SelectSeq(str_split(file, "/"),
                     LAMBDA part : part # <<>> /\ part # <<".">>)
    IN  IF file[1] = "/" THEN <<<<"/">>>> \o parts ELSE parts

\* The entry of `files` that holds the file at the state path of `name`
StateFile(files, name) ==
    CHOOSE key \in DOMAIN files : StatePath(key) = StatePath(name)

\* state.py 39-65
load_state(files, name) ==
    IF ~files[StateFile(files, name)].exists
    THEN [name |-> name, session_id |-> None, last_run_at |-> NoneInt,
          runs |-> <<>>, max_runs |-> MAX_RUNS]
    ELSE [name |-> name,
          session_id |-> files[StateFile(files, name)].session_id,
          last_run_at |-> files[StateFile(files, name)].last_run_at,
          runs |-> [i \in DOMAIN files[StateFile(files, name)].runs |->
                       LoadRun(files[StateFile(files, name)].runs[i])],
          max_runs |-> MAX_RUNS]

\* Mutant: the trim keeps the oldest records
TrimRuns_keepOldest(state) ==
    IF Len(state.runs) > state.max_runs
    THEN [state EXCEPT !.runs = SubSeq(@, 1, state.max_runs)]
    ELSE state

\* state.py 70-72: the in-memory trim of save_state
TrimRuns(state) ==
    IF Len(state.runs) > state.max_runs
    THEN [state EXCEPT !.runs = PySuffix(@, state.max_runs)]
    ELSE state

\* state.py 74-88: the JSON payload of a (trimmed) state
Payload(state) ==
    [exists |-> TRUE,
     session_id |-> state.session_id,
     last_run_at |-> state.last_run_at,
     runs |-> [i \in DOMAIN state.runs |->
                 [started_at |-> state.runs[i].started_at,
                  completed_at |-> state.runs[i].completed_at,
                  ok |-> state.runs[i].ok,
                  duration_ms |-> state.runs[i].duration_ms,
                  usage |-> state.runs[i].usage,
                  error |-> state.runs[i].error]]]

\* state.py 68-91: the files after save_state(state) has written
save_state(files, state) ==
    [files EXCEPT
        ![StateFile(files, state.name)] = Payload(TrimRuns(state))]

\* ------------------------------------------------------------------------
\* State of one call of _split_for_html_pre, one outer pass per step
\* ------------------------------------------------------------------------
VARIABLES
    text,               \* argument text
    max_escaped_chars,  \* argument / local max_escaped_chars
    start,              \* local start
    chunks,             \* local chunks
    splitPc             \* "call", "loop", "done"

splitVars == <<text, max_escaped_chars, start, chunks, splitPc>>

\* ------------------------------------------------------------------------
\* State of one EventFactory (the session orchestrator of one run)
\* ------------------------------------------------------------------------
VARIABLES
    factoryEngine,      \* EventFactory.engine
    factoryResume,      \* EventFactory.resume: NoToken or a ResumeToken
    lastToken,          \* argument of the latest started() call
    lastOutcome,        \* "ok" or the error of the latest started() call
    callCount           \* number of started() calls so far

factoryVars ==
    <<factoryEngine, factoryResume, lastToken, lastOutcome, callCount>>

\* ------------------------------------------------------------------------
\* State of the heartbeat command: the state files, the process working
\* directory, the clock, and the locals of each command execution
\* ------------------------------------------------------------------------
VARIABLES
    disk,               \* task name -> content of the file at its path
    cwd,                \* os.getcwd()
    now,                \* clock, advanced by every reading
    proc                \* execution -> locals of _run and run_heartbeat

runVars == <<disk, cwd, now, proc>>

\* ------------------------------------------------------------------------
\* State of one call of resolve_engine_for_message: its arguments, what its
\* collaborators hold, its locals and the collaborators it has called
\* ------------------------------------------------------------------------
VARIABLES
    resolve

\* ------------------------------------------------------------------------
\* State of the worktree manager for one (project, branch): the locals of
\* the resolution in progress, what is at the target path, and the
\* filesystem and git calls issued so far
\* ------------------------------------------------------------------------
VARIABLES
    worktree

\* ------------------------------------------------------------------------
\* State of one supervised child process: the manage_subprocess scope of
\* its caller, the child itself, and the signal calls made so far
\* ------------------------------------------------------------------------
VARIABLES
    subproc

\* ------------------------------------------------------------------------
\* State of one save_state call on a caller-built HeartbeatState: the state
\* object, the state files and the history the object held before the call
\* ------------------------------------------------------------------------
VARIABLES
    trim

\* ------------------------------------------------------------------------
\* State of one save_state / load_state round trip: the HeartbeatState the
\* caller built, the state files, and the state load_state returned
\* ------------------------------------------------------------------------
VARIABLES
    roundtrip

\* ------------------------------------------------------------------------
\* State of the classifier module: its routing table, the environment it
\* reads, the classify_with_haiku call waiting for its response, and the
\* classifications returned so far
\* ------------------------------------------------------------------------
VARIABLES
    classifier

\* ------------------------------------------------------------------------
\* State of the Telegram transport: the send operations made so far, what
\* each request came back with and what the operation gave its caller
\* ------------------------------------------------------------------------
VARIABLES
    transport

\* ------------------------------------------------------------------------
\* State of one _poll_for_reply call: its arguments, the time since it
\* started (in ticks), its locals, the latest fault and what it returned
\* ------------------------------------------------------------------------
VARIABLES
    poll

\* ------------------------------------------------------------------------
\* format_notification_messages applied to one name and result
\* (src/takopi/heartbeat/notify.py 122-169)
\* ------------------------------------------------------------------------
VARIABLES
    notification

vars ==
    <<splitVars, factoryVars, runVars, resolve, worktree, subproc, trim,
      roundtrip, classifier, transport, poll, notification>>

notSplit ==
    <<factoryVars, runVars, resolve, worktree, subproc, trim, roundtrip,
      classifier, transport, poll, notification>>
notFactory ==
    <<splitVars, runVars, resolve, worktree, subproc, trim, roundtrip,
      classifier, transport, poll, notification>>
notRun ==
    <<splitVars, factoryVars, resolve, worktree, subproc, trim, roundtrip,
      classifier, transport, poll, notification>>
notResolve ==
    <<splitVars, factoryVars, runVars, worktree, subproc, trim, roundtrip,
      classifier, transport, poll, notification>>
notWorktree ==
    <<splitVars, factoryVars, runVars, resolve, subproc, trim, roundtrip,
      classifier, transport, poll, notification>>
notSubproc ==
    <<splitVars, factoryVars, runVars, resolve, worktree, trim, roundtrip,
      classifier, transport, poll, notification>>
notTrim ==
    <<splitVars, factoryVars, runVars, resolve, worktree, subproc, roundtrip,
      classifier, transport, poll, notification>>
notRoundtrip ==
    <<splitVars, factoryVars, runVars, resolve, worktree, subproc, trim,
      classifier, transport, poll, notification>>
notClassifier ==
    <<splitVars, factoryVars, runVars, resolve, worktree, subproc, trim,
      roundtrip, transport, poll, notification>>
notTransport ==
    <<splitVars, factoryVars, runVars, resolve, worktree, subproc, trim,
      roundtrip, classifier, poll, notification>>
notPoll ==
    <<splitVars, factoryVars, runVars, resolve, worktree, subproc, trim,
      roundtrip, classifier, transport, notification>>
notNotification ==
    <<splitVars, factoryVars, runVars, resolve, worktree, subproc, trim,
      roundtrip, classifier, transport, poll>>

\* ------------------------------------------------------------------------
\* Inputs and initial values
\* ------------------------------------------------------------------------
Alphabet == {"a", "\n", "&", "<", "'", "t", ";"}

Texts == UNION {[1..n -> Alphabet] : n \in 0..MaxTextLen}

Budgets == (0 - 1)..MaxBudget

Engines == {"claude", "codex"}

SessionValues == {"s1", "s2", "s3"}

ResumeTokens == [engine : Engines, value : SessionValues]

ERR_ENGINE == "resume token is for engine"
ERR_MISMATCH == "resume token mismatch"

Procs == {1, 2}

Names == {<<"a">>, <<"b", "&">>}

HOME == "home"
ExistingDirs == {HOME, "work", "docs"}
CwdSettings == {None, "work", "missing"}

\* Python truthiness of `str | None` values
Truthy(v) == v # None /\ v # ""
TruthySeq(v) == v # NoneSeq /\ v # <<>>

NoResult ==
    [ok |-> FALSE, answer |-> <<>>, session_id |-> None,
     duration_ms |-> NoneInt, usage |-> NoUsage, error |-> NoneSeq]

IdleProc ==
    [pc |-> "idle", name |-> <<>>, resume |-> FALSE, settings_cwd |-> None,
     state |-> [name |-> <<>>, session_id |-> None, last_run_at |-> NoneInt,
                runs |-> <<>>, max_runs |-> MAX_RUNS],
     resume_token |-> NoToken, original_cwd |-> None, started_at |-> NoneInt,
     session_id |-> None, answer |-> <<>>, error |-> NoneSeq, ok |-> FALSE,
     usage |-> NoUsage, duration_ms |-> NoneInt, pending |-> None,
     raised |-> NoneSeq,
     seen_resume |-> None, nEvents |-> 0, saves |-> 0, result |-> NoResult,
     should_notify |-> FALSE, messages |-> <<>>, idx |-> 0, sent |-> <<>>,
     delivery |-> None, result_ok |-> None,
     exit_code |-> NoneInt, exit_cause |-> None]

\* The process has ended: its completion status remains, with what the run
\* returned ("True", "False", or None when nothing was returned) and how
\* delivery went
ExitedProc(rec, code, cause) ==
    [IdleProc EXCEPT !.pc = "exited", !.exit_code = code, !.exit_cause = cause,
                     !.name = rec.name, !.settings_cwd = rec.settings_cwd,
                     !.original_cwd = rec.original_cwd,
                     !.delivery = rec.delivery,
                     !.result_ok = IF rec.result = NoResult THEN None
                                   ELSE IF rec.result.ok THEN "True"
                                   ELSE "False"]

\* A state file written by n earlier runs of the task
OldRun(i) ==
    [started_at |-> 2 * i - 1, completed_at |-> 2 * i, ok |-> TRUE,
     duration_ms |-> 1000, usage |-> NoUsage, error |-> NoneSeq]

SavedFile(n, sid) ==
    [exists |-> TRUE, session_id |-> sid, last_run_at |-> 2 * n,
     runs |-> [i \in 1..n |-> OldRun(i)]]

InitFiles(name) ==
    IF name = <<"a">>
    THEN {NoFile, SavedFile(MAX_RUNS - 1, "s0"), SavedFile(MAX_RUNS, "s0")}
    ELSE {NoFile, SavedFile(1, None)}

\* The events an engine run can yield
RunSessionValues == {"s1", "s2"}

Cost == [kind |-> "dict", has_cost |-> TRUE,
         cost |-> <<"0", ".", "1", "2", "3", "4">>]

ShortAnswer == <<" ", "o", "k", "\n", " ", "\n", "<", "&", "\n">>
LongAnswer == Rep("'", LongAnswerLen)
ErrorText == <<"n", "o", "&">>
ExcMessages == {<<"l", "o", "s", "t">>}

Event(type, ok, answer, error, usage, resume) ==
    [type |-> type, ok |-> ok, answer |-> answer, error |-> error,
     usage |-> usage, resume |-> resume]

ClaudeToken(v) == [engine |-> "claude", value |-> v]

StartedEvents ==
    {Event("started", FALSE, <<>>, NoneSeq, NoUsage, ClaudeToken(v)) :
        v \in RunSessionValues}

CompletedEvents ==
    { Event("completed", TRUE, LongAnswer, NoneSeq, Cost, ClaudeToken("s2")),
      Event("completed", TRUE, ShortAnswer, NoneSeq, NoUsage, NoToken),
      Event("completed", TRUE, <<>>, NoneSeq, NoUsage, ClaudeToken("s1")),
      Event("completed", FALSE, <<>>, ErrorText, NoUsage, NoToken),
      Event("completed", FALSE, ShortAnswer, ErrorText, Cost,
            ClaudeToken("s1")) }

Events == StartedEvents \cup CompletedEvents

\* ------------------------------------------------------------------------
\* Components at rest (each specification runs one component)
\* ------------------------------------------------------------------------
\* No call of the splitter in progress (used by the other specifications)
SplitIdle ==
    /\ text = <<>>
    /\ max_escaped_chars = 0
    /\ start = 0
    /\ chunks = <<>>
    /\ splitPc = "idle"

\* No EventFactory in use (used by the other specifications)
FactoryIdle ==
    /\ factoryEngine = None
    /\ factoryResume = NoToken
    /\ lastToken = NoToken
    /\ lastOutcome = None
    /\ callCount = 0

RunIdle ==
    /\ disk = [n \in Names |-> NoFile]
    /\ cwd = HOME
    /\ now = 0
    /\ proc = [p \in Procs |-> IdleProc]

\* Engines of engine_defaults.py (model.EngineId values)
EngineIds == {"claude", "codex"}

\* engine_defaults.py 26-34: no EngineResolution returned yet
NoResolution ==
    [engine |-> None, source |-> None, topic_default |-> None,
     chat_default |-> None, project_default |-> None,
     classification |-> None, model_override |-> None]

\* classifier.py 35-39: ROUTING_TABLE, task type -> (engine, model)
ROUTING_TABLE ==
    [coding |-> [engine |-> "codex", model |-> "gpt-5.2"],
     reasoning |-> [engine |-> "claude", model |-> "opus"],
     quick |-> [engine |-> "claude", model |-> "haiku"]]

\* classifier.py 230-246: what classify_task can return for a prompt
TaskTypes == {"coding", "reasoning", "quick"}

\* No call of resolve_engine_for_message in progress
IdleResolve ==
    [pc |-> "idle", explicit_engine |-> None, has_topic_store |-> FALSE,
     has_topic_key |-> FALSE, stored_topic |-> None,
     has_chat_prefs |-> FALSE, stored_chat |-> None,
     runtime_project |-> None, runtime_default |-> None,
     has_prompt |-> FALSE, auto_classify |-> FALSE,
     topic_default |-> None, chat_default |-> None,
     project_default |-> None, called |-> <<>>, result |-> NoResolution]

ResolveIdle == resolve = IdleResolve

\* Root of the project's worktrees, as path segments
WORKTREES_ROOT == <<<<"p">>, <<"w">>>>

\* No resolution requested yet
IdleWorktree ==
    [pc |-> "idle", branch |-> <<>>, sanitized |-> <<>>, path |-> <<>>,
     kind |-> "absent", base_ref |-> <<>>, create_branch |-> FALSE,
     error |-> None, round |-> 0, calls |-> <<>>, returned |-> <<>>]

WorktreeIdle == worktree = IdleWorktree

\* No child process opened yet
IdleSubproc ==
    [pc |-> "idle", posix |-> FALSE, stubborn |-> FALSE, child |-> "none",
     returncode |-> NoneInt, body_raised |-> FALSE, timed_out |-> FALSE,
     invoked |-> <<>>]

SubprocIdle == subproc = IdleSubproc

\* No save_state call on a caller-built state yet
IdleTrim ==
    [pc |-> "idle",
     state |-> [name |-> <<>>, session_id |-> None, last_run_at |-> NoneInt,
                runs |-> <<>>, max_runs |-> MAX_RUNS],
     original |-> <<>>,
     files |-> [n \in Names |-> NoFile],
     loaded |-> <<>>]

TrimIdle == trim = IdleTrim

\* No HeartbeatState built, saved or loaded yet
IdleRoundtrip ==
    [pc |-> "idle",
     original |-> [name |-> <<>>, session_id |-> None,
                   last_run_at |-> NoneInt, runs |-> <<>>,
                   max_runs |-> MAX_RUNS],
     state |-> [name |-> <<>>, session_id |-> None, last_run_at |-> NoneInt,
                runs |-> <<>>, max_runs |-> MAX_RUNS],
     files |-> [n \in Names |-> NoFile],
     saved |-> FALSE,
     loaded_name |-> <<>>,
     loaded |-> [name |-> <<>>, session_id |-> None,
                 last_run_at |-> NoneInt, runs |-> <<>>,
                 max_runs |-> MAX_RUNS]]

RoundtripIdle == roundtrip = IdleRoundtrip

\* classifier.py 26-34: no ClassificationResult built
NoClassification ==
    [raised |-> None, task_type |-> None, engine |-> None, model |-> None,
     confidence |-> 0, reason |-> None]

\* The classifier module after import: the default routing table, no
\* credential in the environment, nothing classified
IdleClassifier ==
    [table |-> ROUTING_TABLE,
     env |-> [ANTHROPIC_API_KEY |-> None, LANG |-> None],
     op |-> None,
     pending |-> <<>>,
     history |-> <<>>]

ClassifierIdle == classifier = IdleClassifier

\* No transport call made yet
IdleTransport == [calls |-> <<>>]

TransportIdle == transport = IdleTransport

\* No _poll_for_reply call made yet
\* No update returned
NoUpdate == [kind |-> None, chat |-> None, target |-> None, data |-> None]

\* _poll_for_reply not called yet. The server numbers its updates from
\* next_id on; param_offset is the offset parameter of the request in
\* flight, seen_max the highest update id the loop has gone through,
\* returned_update the update whose data is returned
IdlePoll ==
    [pc |-> "idle", timeout |-> 0, expect_callback |-> FALSE, elapsed |-> 0,
     offset |-> NoneInt, poll_timeout |-> 0, http_timeout |-> 0,
     fault |-> None, result |-> None,
     param_offset |-> NoneInt, next_id |-> 1,
     seen_max |-> 0, returned_update |-> NoUpdate]

PollIdle == poll = IdlePoll

\* No format_notification_messages call made yet
IdleNotification ==
    [pc |-> "idle", name |-> <<>>, result |-> NoResult, messages |-> <<>>]

NotificationIdle == notification = IdleNotification

\* Every component but c is at rest
IdleExcept(c) ==
    /\ c = "split" \/ SplitIdle
    /\ c = "factory" \/ FactoryIdle
    /\ c = "run" \/ RunIdle
    /\ c = "resolve" \/ ResolveIdle
    /\ c = "worktree" \/ WorktreeIdle
    /\ c = "subproc" \/ SubprocIdle
    /\ c = "trim" \/ TrimIdle
    /\ c = "roundtrip" \/ RoundtripIdle
    /\ c = "classifier" \/ ClassifierIdle
    /\ c = "transport" \/ TransportIdle
    /\ c = "poll" \/ PollIdle
    /\ c = "notification" \/ NotificationIdle

\* ------------------------------------------------------------------------
\* _split_for_html_pre, one outer pass per step
\* ------------------------------------------------------------------------
\* notify.py 41-46: empty text returns [], the budget is clamped to >= 1
SplitEnter ==
    /\ splitPc = "call"
    /\ IF text = <<>>
       THEN splitPc' = "done" /\ UNCHANGED max_escaped_chars
       ELSE splitPc' = "loop" /\ max_escaped_chars' = Max(1, max_escaped_chars)
    /\ UNCHANGED <<text, start, chunks>>
    /\ UNCHANGED notSplit

\* Mutant: the chunk is stored without its trailing newline
SplitIter_rstrip ==
    /\ splitPc = "loop"
    /\ start < Len(text)
    /\ LET end == ChunkEnd(text, max_escaped_chars, start)
           chunk == Slice(text, start, end)
       IN  /\ chunks' = Append(chunks,
                  IF chunk[Len(chunk)] = "\n"
                  THEN SubSeq(chunk, 1, Len(chunk) - 1) ELSE chunk)
           /\ start' = end
    /\ UNCHANGED <<text, max_escaped_chars, splitPc>>
    /\ UNCHANGED notSplit

\* notify.py 47-71: one pass of the outer loop
SplitIter ==
    /\ splitPc = "loop"
    /\ start < Len(text)
    /\ LET end == ChunkEnd(text, max_escaped_chars, start)
       IN  /\ chunks' = Append(chunks, Slice(text, start, end))
           /\ start' = end
    /\ UNCHANGED <<text, max_escaped_chars, splitPc>>
    /\ UNCHANGED notSplit

\* notify.py 47, 73: the loop condition fails, chunks is returned
SplitReturn ==
    /\ splitPc = "loop"
    /\ ~(start < Len(text))
    /\ splitPc' = "done"
    /\ UNCHANGED <<text, max_escaped_chars, start, chunks>>
    /\ UNCHANGED notSplit

SplitInit ==
    /\ IdleExcept("split")
    /\ text \in Texts
    /\ max_escaped_chars \in Budgets
    /\ start = 0
    /\ chunks = <<>>
    /\ splitPc = "call"

SplitNext == SplitEnter \/ SplitIter \/ SplitReturn

SplitSpec == SplitInit /\ [][SplitNext]_vars

\* ------------------------------------------------------------------------
\* heartbeat/executor.py and cli/heartbeat.py
\* ------------------------------------------------------------------------
Set(p, rec) == proc' = [proc EXCEPT ![p] = rec]

\* Mutant: the prompt is loaded after the working directory was switched
RunPromptMissing_afterChdir(p) ==
    /\ proc[p].pc = "idle"
    /\ \E name \in Names :
          Set(p, ExitedProc([proc[p] EXCEPT !.name = name], 1, "prompt"))
    /\ cwd' = "work"
    /\ UNCHANGED <<disk, now, notRun>>

\* cli/heartbeat.py 73-78 and executor.py 81-84: the prompt file is missing,
\* load_prompt raises FileNotFoundError out of run_heartbeat and _run
RunPromptMissing(p) ==
    /\ proc[p].pc = "idle"
    /\ \E name \in Names :
          Set(p, ExitedProc([proc[p] EXCEPT !.name = name], 1, "prompt"))
    /\ UNCHANGED <<disk, cwd, now, notRun>>

\* Mutant: a fresh run starts from no resume value
RunStart_freshClears(p, name, resume, settings_cwd) ==
    /\ proc[p].pc = "idle"
    /\ LET state == load_state(disk, name)
           resume_token ==
               IF resume /\ Truthy(state.session_id)
               THEN [engine |-> "claude", value |-> state.session_id]
               ELSE NoToken
       IN  /\ Set(p, [IdleProc EXCEPT
                  !.pc = "stream", !.name = name, !.resume = resume,
                  !.settings_cwd = settings_cwd, !.state = state,
                  !.resume_token = resume_token, !.original_cwd = cwd,
                  !.started_at = now,
                  !.session_id = IF resume THEN state.session_id ELSE None])
           /\ cwd' = IF Truthy(settings_cwd) /\ settings_cwd \in ExistingDirs
                     THEN settings_cwd ELSE cwd
    /\ now' = now + 1
    /\ UNCHANGED <<disk, notRun>>

\* Mutant: the resume flag is ignored
RunStart_alwaysResume(p, name, resume, settings_cwd) ==
    /\ proc[p].pc = "idle"
    /\ LET state == load_state(disk, name)
           resume_token ==
               IF Truthy(state.session_id)
               THEN [engine |-> "claude", value |-> state.session_id]
               ELSE NoToken
       IN  /\ Set(p, [IdleProc EXCEPT
                  !.pc = "stream", !.name = name, !.resume = resume,
                  !.settings_cwd = settings_cwd, !.state = state,
                  !.resume_token = resume_token, !.original_cwd = cwd,
                  !.started_at = now, !.session_id = state.session_id])
           /\ cwd' = IF Truthy(settings_cwd) /\ settings_cwd \in ExistingDirs
                     THEN settings_cwd ELSE cwd
    /\ now' = now + 1
    /\ UNCHANGED <<disk, notRun>>

\* Variant that takes the home directory for the original one
RunStart_homeOrigin(p, name, resume, settings_cwd) ==
    /\ proc[p].pc = "idle"
    /\ LET state == load_state(disk, name)
           resume_token ==
               IF resume /\ Truthy(state.session_id)
               THEN [engine |-> "claude", value |-> state.session_id]
               ELSE NoToken
       IN  /\ Set(p, [IdleProc EXCEPT
                  !.pc = "stream", !.name = name, !.resume = resume,
                  !.settings_cwd = settings_cwd, !.state = state,
                  !.resume_token = resume_token, !.original_cwd = HOME,
                  !.started_at = now, !.session_id = state.session_id])
           /\ cwd' = IF Truthy(settings_cwd) /\ settings_cwd \in ExistingDirs
                     THEN settings_cwd ELSE cwd
    /\ now' = now + 1
    /\ UNCHANGED <<disk, notRun>>

\* Variant that changes directory without looking whether it exists
RunStart_chdirAlways(p, name, resume, settings_cwd) ==
    /\ proc[p].pc = "idle"
    /\ LET state == load_state(disk, name)
           resume_token ==
               IF resume /\ Truthy(state.session_id)
               THEN [engine |-> "claude", value |-> state.session_id]
               ELSE NoToken
       IN  /\ Set(p, [IdleProc EXCEPT
                  !.pc = "stream", !.name = name, !.resume = resume,
                  !.settings_cwd = settings_cwd, !.state = state,
                  !.resume_token = resume_token, !.original_cwd = cwd,
                  !.started_at = now, !.session_id = state.session_id])
           /\ cwd' = IF Truthy(settings_cwd) THEN settings_cwd ELSE cwd
    /\ now' = now + 1
    /\ UNCHANGED <<disk, notRun>>

\* cli/heartbeat.py 73-78 and executor.py 81-130: state and prompt are
\* loaded, the resume token is prepared, the working directory is switched
RunStart(p, name, resume, settings_cwd) ==
    /\ proc[p].pc = "idle"
    /\ LET state == load_state(disk, name)
           resume_token ==
               IF resume /\ Truthy(state.session_id)
               THEN [engine |-> "claude", value |-> state.session_id]
               ELSE NoToken
       IN  /\ Set(p, [IdleProc EXCEPT
                  !.pc = "stream", !.name = name, !.resume = resume,
                  !.settings_cwd = settings_cwd, !.state = state,
                  !.resume_token = resume_token, !.original_cwd = cwd,
                  !.started_at = now, !.session_id = state.session_id])
           /\ cwd' = IF Truthy(settings_cwd) /\ settings_cwd \in ExistingDirs
                     THEN settings_cwd ELSE cwd
    /\ now' = now + 1
    /\ UNCHANGED <<disk, notRun>>

\* executor.py 131-145: one event of the stream is consumed
RunEvent(p, event) ==
    /\ proc[p].pc = "stream"
    /\ proc[p].nEvents < MaxEvents
    /\ IF event.type = "started"
       THEN Set(p, [proc[p] EXCEPT
                !.session_id = event.resume.value,
                !.seen_resume = event.resume.value,
                !.nEvents = @ + 1])
       ELSE Set(p, [proc[p] EXCEPT
                !.ok = event.ok, !.answer = event.answer,
                !.error = event.error, !.usage = event.usage,
                !.session_id =
                    IF event.resume # NoToken THEN event.resume.value ELSE @,
                !.seen_resume =
                    IF event.resume # NoToken THEN event.resume.value ELSE @,
                !.nEvents = @ + 1])
    /\ UNCHANGED <<disk, cwd, now, notRun>>

\* executor.py 131: the stream is exhausted
RunStreamEnd(p) ==
    /\ proc[p].pc = "stream"
    /\ Set(p, [proc[p] EXCEPT !.pc = "finally"])
    /\ UNCHANGED <<disk, cwd, now, notRun>>

\* Mutant: no `except Exception` clause, the exception leaves run_heartbeat
RunStreamRaise_propagates(p, msg) ==
    /\ proc[p].pc = "stream"
    /\ Set(p, [proc[p] EXCEPT !.pc = "finally", !.raised = msg,
                              !.pending = "exception"])
    /\ UNCHANGED <<disk, cwd, now, notRun>>

\* executor.py 146-149: the stream raises an Exception
RunStreamRaise(p, msg) ==
    /\ proc[p].pc = "stream"
    /\ Set(p, [proc[p] EXCEPT !.pc = "finally", !.error = msg, !.ok = FALSE,
                              !.raised = msg])
    /\ UNCHANGED <<disk, cwd, now, notRun>>

\* executor.py 129-150: the run is cancelled (a BaseException that `except
\* Exception` does not catch)
RunCancel(p) ==
    /\ proc[p].pc = "stream"
    /\ Set(p, [proc[p] EXCEPT !.pc = "finally", !.pending = "cancelled"])
    /\ UNCHANGED <<disk, cwd, now, notRun>>

\* Mutant: the directory is restored after the try statement instead of in
\* its finally clause
RunFinally_afterTry(p) ==
    /\ proc[p].pc = "finally"
    /\ cwd' = IF proc[p].pending # None THEN cwd ELSE proc[p].original_cwd
    /\ IF proc[p].pending # None
       THEN Set(p, ExitedProc(proc[p], 1, proc[p].pending))
       ELSE Set(p, [proc[p] EXCEPT !.pc = "update"])
    /\ UNCHANGED <<disk, now, notRun>>

\* executor.py 150-152: the original directory is restored; a pending
\* cancellation then leaves run_heartbeat and the command
RunFinally(p) ==
    /\ proc[p].pc = "finally"
    /\ cwd' = proc[p].original_cwd
    /\ IF proc[p].pending # None
       THEN Set(p, ExitedProc(proc[p], 1, proc[p].pending))
       ELSE Set(p, [proc[p] EXCEPT !.pc = "update"])
    /\ UNCHANGED <<disk, now, notRun>>

\* Mutant: the history is replaced by the new record instead of extended
UpdatedState_replace(rec, completed_at) ==
    [rec.state EXCEPT
        !.session_id = rec.session_id,
        !.last_run_at = completed_at,
        !.runs =
            <<[started_at |-> rec.started_at, completed_at |-> completed_at,
               ok |-> rec.ok,
               duration_ms |-> (completed_at - rec.started_at) * 1000,
               usage |-> rec.usage, error |-> rec.error]>>]

\* executor.py 154-177: the state as updated before save_state
UpdatedState(rec, completed_at) ==
    [rec.state EXCEPT
        !.session_id = rec.session_id,
        !.last_run_at = completed_at,
        !.runs = Append(@,
            [started_at |-> rec.started_at, completed_at |-> completed_at,
             ok |-> rec.ok,
             duration_ms |-> (completed_at - rec.started_at) * 1000,
             usage |-> rec.usage, error |-> rec.error])]

\* Mutant: the state is read again just before the record is appended
RunSave_reload(p) ==
    /\ proc[p].pc = "update"
    /\ LET fresh == [proc[p] EXCEPT !.state = load_state(disk, proc[p].name)]
           state == UpdatedState(fresh, now)
       IN  /\ disk' = save_state(disk, state)
           /\ Set(p, [proc[p] EXCEPT
                  !.pc = "return",
                  !.duration_ms = (now - proc[p].started_at) * 1000,
                  !.state = TrimRuns(state),
                  !.saves = @ + 1])
    /\ now' = now + 1
    /\ UNCHANGED <<cwd, notRun>>

\* executor.py 154-178: the state is updated and saved
RunSave(p) ==
    /\ proc[p].pc = "update"
    /\ LET state == UpdatedState(proc[p], now)
       IN  /\ disk' = save_state(disk, state)
           /\ Set(p, [proc[p] EXCEPT
                  !.pc = "return",
                  !.duration_ms = (now - proc[p].started_at) * 1000,
                  !.state = TrimRuns(state),
                  !.saves = @ + 1])
    /\ now' = now + 1
    /\ UNCHANGED <<cwd, notRun>>

\* Mutant: the write error is swallowed and the run goes on unsaved
RunSaveFails_swallowed(p) ==
    /\ proc[p].pc = "update"
    /\ Set(p, [proc[p] EXCEPT
           !.pc = "return",
           !.duration_ms = (now - proc[p].started_at) * 1000])
    /\ now' = now + 1
    /\ UNCHANGED <<disk, cwd, notRun>>

\* executor.py 178: writing the state file fails; the error leaves
\* run_heartbeat and the command
RunSaveFails(p) ==
    /\ proc[p].pc = "update"
    /\ Set(p, ExitedProc(proc[p], 1, "save"))
    /\ now' = now + 1
    /\ UNCHANGED <<disk, cwd, notRun>>

\* executor.py 180-187
RunReturn(p) ==
    /\ proc[p].pc = "return"
    /\ Set(p, [proc[p] EXCEPT
           !.pc = "returned",
           !.result =
               [ok |-> proc[p].ok, answer |-> proc[p].answer,
                session_id |-> proc[p].session_id,
                duration_ms |-> proc[p].duration_ms,
                usage |-> proc[p].usage, error |-> proc[p].error]])
    /\ UNCHANGED <<disk, cwd, now, notRun>>

\* cli/heartbeat.py 80-98: the result is reported and should_notify is
\* computed from the settings
CmdDecide(p, notify, no_notify, notify_on_success, notify_on_failure) ==
    /\ proc[p].pc = "returned"
    /\ LET result == proc[p].result
           should_notify ==
               /\ notify
               /\ ~no_notify
               /\ \/ result.ok /\ notify_on_success
                  \/ ~result.ok /\ notify_on_failure
       IN  Set(p, [proc[p] EXCEPT
               !.pc = IF should_notify THEN "format" ELSE "done",
               !.delivery = IF should_notify THEN "started"
                            ELSE "not attempted",
               !.should_notify = should_notify])
    /\ UNCHANGED <<disk, cwd, now, notRun>>

\* cli/heartbeat.py 99-102: the messages are formatted
CmdFormat(p) ==
    /\ proc[p].pc = "format"
    /\ Set(p, [proc[p] EXCEPT
           !.pc = "notify",
           !.messages =
               format_notification_messages(proc[p].name, proc[p].result),
           !.idx = 0])
    /\ UNCHANGED <<disk, cwd, now, notRun>>

\* Mutant: the loop does not break after a failed send
CmdSend_noBreak(p, sendOk) ==
    /\ proc[p].pc = "notify"
    /\ LET idx == proc[p].idx
           entry == [idx |-> idx,
                     disable_notification |->
                         IF idx > 0 THEN "True" ELSE None,
                     ok |-> sendOk]
       IN  Set(p, [proc[p] EXCEPT
               !.sent = Append(@, entry),
               !.delivery = IF sendOk THEN "sent" ELSE "send false",
               !.idx = idx + 1,
               !.pc = IF idx + 1 = Len(proc[p].messages)
                      THEN "done" ELSE "notify"])
    /\ UNCHANGED <<disk, cwd, now, notRun>>

\* cli/heartbeat.py 102-110: one pass of the send loop; sendOk is what
\* send_telegram_notification returns
CmdSend(p, sendOk) ==
    /\ proc[p].pc = "notify"
    /\ LET idx == proc[p].idx
           entry == [idx |-> idx,
                     disable_notification |->
                         IF idx > 0 THEN "True" ELSE None,
                     ok |-> sendOk]
       IN  Set(p, [proc[p] EXCEPT
               !.sent = Append(@, entry),
               !.delivery = IF sendOk THEN "sent" ELSE "send false",
               !.idx = IF sendOk THEN idx + 1 ELSE idx,
               !.pc = IF ~sendOk \/ idx + 1 = Len(proc[p].messages)
                      THEN "done" ELSE "notify"])
    /\ UNCHANGED <<disk, cwd, now, notRun>>

\* cli/heartbeat.py 99-113: delivery raises; the error is reported and
\* swallowed
CmdNotifyRaises(p) ==
    /\ proc[p].pc \in {"format", "notify"}
    /\ Set(p, [proc[p] EXCEPT !.pc = "done", !.delivery = "raised"])
    /\ UNCHANGED <<disk, cwd, now, notRun>>

\* Variant whose status also reflects a failed delivery
CmdExit_deliveryAware(p) ==
    /\ proc[p].pc = "done"
    /\ Set(p, ExitedProc(proc[p],
               IF proc[p].result.ok
                      /\ proc[p].delivery \notin {"send false", "raised"}
               THEN 0 ELSE 1,
               "normal"))
    /\ UNCHANGED <<disk, cwd, now, notRun>>

\* cli/heartbeat.py 115-118: the completion status
CmdExit(p) ==
    /\ proc[p].pc = "done"
    /\ Set(p, ExitedProc(proc[p], IF proc[p].result.ok THEN 0 ELSE 1,
                          "normal"))
    /\ UNCHANGED <<disk, cwd, now, notRun>>

RunInit ==
    /\ IdleExcept("run")
    /\ disk \in {f \in [Names -> UNION {InitFiles(n) : n \in Names}] :
                    \A n \in Names : f[n] \in InitFiles(n)}
    /\ cwd = HOME
    /\ now = 2 * MAX_RUNS + 1
    /\ proc = [p \in Procs |-> IdleProc]


Step(p) ==
    \/ RunPromptMissing(p)
    \/ \E name \in Names, resume \in BOOLEAN, settings_cwd \in CwdSettings :
          RunStart(p, name, resume, settings_cwd)
    \/ \E event \in Events : RunEvent(p, event)
    \/ RunStreamEnd(p)
    \/ \E msg \in ExcMessages : RunStreamRaise(p, msg)
    \/ RunCancel(p)
    \/ RunFinally(p)
    \/ RunSave(p)
    \/ RunSaveFails(p)
    \/ RunReturn(p)
    \/ \E notify, no_notify, on_success, on_failure \in BOOLEAN :
          CmdDecide(p, notify, no_notify, on_success, on_failure)
    \/ CmdFormat(p)
    \/ \E sendOk \in BOOLEAN : CmdSend(p, sendOk)
    \/ CmdNotifyRaises(p)
    \/ CmdExit(p)

\* One command execution (the other process slot stays idle)
Next == Step(1)

Spec == RunInit /\ [][Next]_vars

\* ------------------------------------------------------------------------
\* Properties of run_heartbeat and of the heartbeat command
\* ------------------------------------------------------------------------
AfterSave == {"return", "returned", "format", "notify", "done"}
BeforeSave == {"idle", "stream", "finally", "update"}

\* The step of execution p that persists the state
Persists(p) == proc[p].pc = "update" /\ proc'[p].pc = "return"

\* C1: whenever run_heartbeat has returned a result the state was persisted
\* exactly once, after the stream ended (normally or by an exception), and
\* what was persisted is the loaded history (its oldest records dropped at
\* the maximum) followed by the one record of this run.
C1_PersistOnce ==
    /\ [](\A p \in Procs :
            /\ proc[p].pc \in AfterSave => proc[p].saves = 1
            /\ proc[p].pc \in BeforeSave => proc[p].saves = 0)
    /\ [][\A p \in Procs : Persists(p) =>
            LET old == proc[p].state.runs
                file == disk'[proc[p].name]
                k == Len(file.runs) - 1
            IN  /\ proc'[p].saves = proc[p].saves + 1
                /\ file.exists
                /\ file.runs # <<>>
                /\ Last(file.runs).ok = proc[p].ok
                /\ Last(file.runs).error = proc[p].error
                /\ Last(file.runs).usage = proc[p].usage
                /\ Last(file.runs).started_at = proc[p].started_at
                /\ file.session_id = proc[p].session_id
                /\ k <= Len(old)
                /\ SubSeq(file.runs, 1, k)
                       = SubSeq(old, Len(old) - k + 1, Len(old))
                /\ Len(old) < MAX_RUNS => k = Len(old)]_vars
    /\ [][disk' # disk => \E p \in Procs : Persists(p)]_vars

C1_Witness ==
    \E p \in Procs :
        /\ proc[p].pc = "returned"
        /\ proc[p].raised # NoneSeq
        /\ proc[p].saves = 1
        /\ Len(disk[proc[p].name].runs) = MAX_RUNS
        /\ disk[proc[p].name].runs[1] = OldRun(2)

\* C2: an exception of the stream does not leave run_heartbeat; the result
\* has ok = false and the exception message as error, and a resume value seen
\* in the events before the exception is in the result and in the state file.
C2_ExceptionCaptured ==
    /\ [](\A p \in Procs :
            (proc[p].pc = "returned" /\ proc[p].raised # NoneSeq) =>
                /\ proc[p].result.ok = FALSE
                /\ proc[p].result.error = proc[p].raised
                /\ proc[p].seen_resume # None =>
                     /\ proc[p].result.session_id = proc[p].seen_resume
                     /\ disk[proc[p].name].session_id = proc[p].seen_resume)
    /\ [][\A p \in Procs :
            (proc[p].raised # NoneSeq /\ proc[p].pc = "finally")
                => proc'[p].pc \in {"finally", "update"}]_vars

C2_Witness ==
    \E p \in Procs :
        /\ proc[p].pc = "returned"
        /\ proc[p].raised # NoneSeq
        /\ proc[p].nEvents >= 1
        /\ proc[p].seen_resume = "s1"
        /\ proc[p].resume_token.value = "s0"

\* C4: the engine run gets the token (engine "claude", value = the persisted
\* resume value) exactly when resuming is requested and the loaded state holds
\* a resume value, and no token otherwise.
C4_ResumeToken ==
    \A p \in Procs :
        proc[p].pc \in {"stream", "finally", "update"} =>
            LET file == disk[proc[p].name]
                prior == IF file.exists THEN file.session_id ELSE None
            IN  proc[p].resume_token =
                    IF proc[p].resume /\ prior # None
                    THEN [engine |-> "claude", value |-> prior]
                    ELSE NoToken

C4_Witness ==
    \E p \in Procs :
        /\ proc[p].pc = "stream"
        /\ ~proc[p].resume
        /\ disk[proc[p].name].session_id = "s0"
        /\ proc[p].resume_token = NoToken

\* The working directory was switched for execution p
Switched(p) ==
    /\ proc[p].settings_cwd \in ExistingDirs
    /\ proc[p].settings_cwd # proc[p].original_cwd

\* C5: on every way out of run_heartbeat after the directory was switched the
\* working directory is the one of the beginning again, and it is restored
\* only once the consumption of the stream has ended.
C5_CwdRestored ==
    /\ [](\A p \in Procs :
            /\ (proc[p].pc = "stream" /\ Switched(p))
                   => cwd = proc[p].settings_cwd
            /\ (proc[p].pc \in ({"update"} \cup AfterSave))
                   => cwd = proc[p].original_cwd
            /\ (proc[p].pc = "exited" /\ proc[p].original_cwd # None)
                   => cwd = proc[p].original_cwd)
    /\ [][cwd' # cwd => \E p \in Procs :
              \/ proc[p].pc = "idle"
              \/ proc[p].pc = "finally" /\ proc'[p].pc # "finally"]_vars

C5_Witness ==
    \E p \in Procs :
        /\ proc[p].pc = "exited"
        /\ proc[p].exit_cause = "cancelled"
        /\ Switched(p)
        /\ cwd = proc[p].original_cwd

\* C6: the messages are sent in list order, the first without and every later
\* one with disable_notification = True, and no message follows a failed send.
C6_SendPrefix ==
    \A p \in Procs :
        LET sent == proc[p].sent
        IN  /\ Len(sent) <= Len(proc[p].messages)
            /\ \A k \in DOMAIN sent :
                  /\ sent[k].idx = k - 1
                  /\ sent[k].disable_notification =
                        (IF k = 1 THEN None ELSE "True")
                  /\ k < Len(sent) => sent[k].ok
            /\ (sent # <<>> /\ ~Last(sent).ok) => proc[p].pc = "done"

C6_Witness ==
    \E p \in Procs :
        /\ Len(proc[p].messages) = 3
        /\ Len(proc[p].sent) = 2
        /\ ~proc[p].sent[2].ok
        /\ proc[p].pc = "done"

\* C7: the state is persisted after the stream has ended and before the first
\* message is sent: whenever delivery is under way the state file holds the
\* record of this run.
C7_PersistBeforeNotify ==
    /\ [](\A p \in Procs :
            (proc[p].pc \in {"format", "notify"} \/ proc[p].sent # <<>>) =>
                /\ proc[p].saves = 1
                /\ disk[proc[p].name].exists
                /\ Last(disk[proc[p].name].runs).started_at
                       = proc[p].started_at
                /\ Last(disk[proc[p].name].runs).ok = proc[p].result.ok)
    /\ [](\A p \in Procs :
            proc[p].pc \in {"stream", "finally"} => proc[p].saves = 0)
    /\ [][disk' # disk =>
            \E p \in Procs : proc[p].pc = "update"]_vars

C7_Witness ==
    \E p \in Procs :
        /\ proc[p].sent # <<>>
        /\ ~proc[p].result.ok
        /\ proc[p].raised # NoneSeq
        /\ proc[p].saves = 1

\* ------------------------------------------------------------------------
\* events.EventFactory: started(token)
\* ------------------------------------------------------------------------
\* Mutant: a differing token replaces the recorded one
FactoryStarted_overwrite(token) ==
    /\ callCount < MaxCalls
    /\ callCount' = callCount + 1
    /\ lastToken' = token
    /\ IF token.engine # factoryEngine
       THEN lastOutcome' = ERR_ENGINE /\ UNCHANGED factoryResume
       ELSE lastOutcome' = "ok" /\ factoryResume' = token
    /\ UNCHANGED <<factoryEngine, notFactory>>

\* started(token): a token of another engine is rejected; the first token is
\* recorded; a later token must be identical to the recorded one
FactoryStarted(token) ==
    /\ callCount < MaxCalls
    /\ callCount' = callCount + 1
    /\ lastToken' = token
    /\ IF token.engine # factoryEngine
       THEN lastOutcome' = ERR_ENGINE /\ UNCHANGED factoryResume
       ELSE IF factoryResume = NoToken
       THEN lastOutcome' = "ok" /\ factoryResume' = token
       ELSE IF factoryResume # token
       THEN lastOutcome' = ERR_MISMATCH /\ UNCHANGED factoryResume
       ELSE lastOutcome' = "ok" /\ UNCHANGED factoryResume
    /\ UNCHANGED <<factoryEngine, notFactory>>

\* EventFactory(engine=...): no token recorded yet
FactoryInit ==
    /\ IdleExcept("factory")
    /\ factoryEngine \in Engines
    /\ factoryResume = NoToken
    /\ lastToken = NoToken
    /\ lastOutcome = None
    /\ callCount = 0

FactoryNext == \E token \in ResumeTokens : FactoryStarted(token)

FactorySpec == FactoryInit /\ [][FactoryNext]_vars

\* C3: a recorded token never changes; a started call with a different value
\* for the factory's engine fails with "resume token mismatch", one with the
\* identical token succeeds, and neither changes the recorded token.
C3_ResumeInvariant ==
    /\ [][factoryResume # NoToken => factoryResume' = factoryResume]_vars
    /\ [][(factoryResume # NoToken /\ callCount' # callCount
             /\ lastToken'.engine = factoryEngine)
          => /\ lastOutcome' = (IF lastToken'.value # factoryResume.value
                                THEN ERR_MISMATCH ELSE "ok")
             /\ factoryResume' = factoryResume
             /\ factoryEngine' = factoryEngine]_vars

C3_Witness ==
    /\ factoryResume # NoToken
    /\ lastOutcome = ERR_MISMATCH
    /\ lastToken.engine = factoryEngine
    /\ lastToken.value # factoryResume.value
    /\ callCount >= 3

\* ------------------------------------------------------------------------
\* Properties of the splitter
\* ------------------------------------------------------------------------
\* C8: the chunks produced so far concatenate to the consumed part of the
\* text, and on return the chunks, as well as the un-escaped <pre> bodies of
\* their messages, concatenate to the whole text.
C8_RoundTrip ==
    /\ Concat(chunks) = Slice(text, 0, start)
    /\ splitPc = "done" =>
         /\ Concat(chunks) = text
         /\ Concat([i \in DOMAIN chunks |->
                html_unescape(PreBody(PreMessages(chunks)[i]))]) = text

C8_Witness ==
    /\ splitPc = "done"
    /\ Len(chunks) >= 2
    /\ \E i \in DOMAIN text : text[i] = "&"
    /\ \E i \in DOMAIN text : text[i] = "\n"

\* C9 as stated: every chunk's escaped length is at most the budget.
C9_Original ==
    \A i \in DOMAIN chunks : Len(html_escape(chunks[i])) <= max_escaped_chars

\* C9 amended: a chunk's escaped length is at most max(1, budget) unless the
\* chunk is a single character (whose expansion alone exceeds the budget).
C9_BudgetOrSingle ==
    \A i \in DOMAIN chunks :
        \/ Len(html_escape(chunks[i])) <= Max(1, max_escaped_chars)
        \/ Len(chunks[i]) = 1

C9_Witness ==
    /\ splitPc = "done"
    /\ Len(chunks) >= 2
    /\ \E i \in DOMAIN chunks :
          /\ Len(chunks[i]) >= 2
          /\ Len(html_escape(chunks[i])) > Len(chunks[i])
          /\ Len(html_escape(chunks[i])) = max_escaped_chars

\* Variant of the call: positions still to be passed, then characters still
\* to be consumed.
SplitMeasure ==
    (CASE splitPc = "call" -> 2 [] splitPc = "loop" -> 1 [] OTHER -> 0)
        * (Len(text) + 1)
    + (Len(text) - start)

\* C10: the call terminates: every step strictly decreases a non-negative
\* variant, every pass of the outer loop consumes at least one character,
\* every chunk is non-empty and there are at most len(text) chunks.
C10_Termination ==
    /\ [](\A i \in DOMAIN chunks : chunks[i] # <<>>)
    /\ [](Len(chunks) <= start /\ start <= Len(text))
    /\ [][Len(chunks') > Len(chunks) => start' > start]_vars
    /\ [][SplitMeasure' < SplitMeasure /\ SplitMeasure' >= 0]_vars

C10_Witness ==
    /\ splitPc = "done"
    /\ Len(text) >= 3
    /\ \A i \in DOMAIN text : _html_escaped_len(text[i]) > max_escaped_chars
    /\ Len(chunks) = Len(text)

\* ------------------------------------------------------------------------
\* telegram/engine_defaults.py: resolve_engine_for_message
\* ------------------------------------------------------------------------
\* engine_defaults.py 37-48: the call; stored_topic and stored_chat are what
\* the stores hold, runtime_project what runtime.project_default_engine
\* returns for the context
ResolveCall(args) ==
    /\ resolve.pc = "idle"
    /\ resolve' = [IdleResolve EXCEPT
           !.pc = "lookup",
           !.explicit_engine = args.explicit_engine,
           !.has_topic_store = args.has_topic_store,
           !.has_topic_key = args.has_topic_key,
           !.stored_topic = args.stored_topic,
           !.has_chat_prefs = args.has_chat_prefs,
           !.stored_chat = args.stored_chat,
           !.runtime_project = args.runtime_project,
           !.runtime_default = args.runtime_default,
           !.has_prompt = args.has_prompt,
           !.auto_classify = args.auto_classify]
    /\ UNCHANGED notResolve

\* engine_defaults.py 49-55: the three defaults are looked up
ResolveLookup ==
    /\ resolve.pc = "lookup"
    /\ LET askTopic == resolve.has_topic_store /\ resolve.has_topic_key
           askChat == resolve.has_chat_prefs
       IN  resolve' = [resolve EXCEPT
               !.pc = "decide",
               !.topic_default =
                   IF askTopic THEN resolve.stored_topic ELSE None,
               !.chat_default =
                   IF askChat THEN resolve.stored_chat ELSE None,
               !.project_default = resolve.runtime_project,
               !.called = (IF askTopic THEN <<"topic">> ELSE <<>>)
                          \o (IF askChat THEN <<"chat">> ELSE <<>>)
                          \o <<"project">>]
    /\ UNCHANGED notResolve

\* Mutant: the chat default is tried before the topic default
Resolution_chatFirst(r) ==
    LET base == [NoResolution EXCEPT
                     !.topic_default = r.topic_default,
                     !.chat_default = r.chat_default,
                     !.project_default = r.project_default]
    IN  IF r.explicit_engine # None
        THEN [base EXCEPT !.engine = r.explicit_engine,
                          !.source = "directive"]
        ELSE IF r.chat_default # None
        THEN [base EXCEPT !.engine = r.chat_default,
                          !.source = "chat_default"]
        ELSE IF r.topic_default # None
        THEN [base EXCEPT !.engine = r.topic_default,
                          !.source = "topic_default"]
        ELSE IF r.project_default # None
        THEN [base EXCEPT !.engine = r.project_default,
                          !.source = "project_default"]
        ELSE [base EXCEPT !.engine = r.runtime_default,
                          !.source = "global_default"]

\* engine_defaults.py 57-88 and 111-117: the resolution returned without
\* classification
Resolution(r) ==
    LET base == [NoResolution EXCEPT
                     !.topic_default = r.topic_default,
                     !.chat_default = r.chat_default,
                     !.project_default = r.project_default]
    IN  IF r.explicit_engine # None
        THEN [base EXCEPT !.engine = r.explicit_engine,
                          !.source = "directive"]
        ELSE IF r.topic_default # None
        THEN [base EXCEPT !.engine = r.topic_default,
                          !.source = "topic_default"]
        ELSE IF r.chat_default # None
        THEN [base EXCEPT !.engine = r.chat_default,
                          !.source = "chat_default"]
        ELSE IF r.project_default # None
        THEN [base EXCEPT !.engine = r.project_default,
                          !.source = "project_default"]
        ELSE [base EXCEPT !.engine = r.runtime_default,
                          !.source = "global_default"]

\* Mutant: the project default does not keep the classifier away
ReachesClassifier_overProject(r) ==
    /\ r.explicit_engine = None
    /\ r.topic_default = None
    /\ r.chat_default = None
    /\ r.auto_classify
    /\ r.has_prompt

\* engine_defaults.py 57-91: control reaches the call of classify_task
ReachesClassifier(r) ==
    /\ r.explicit_engine = None
    /\ r.topic_default = None
    /\ r.chat_default = None
    /\ r.project_default = None
    /\ r.auto_classify
    /\ r.has_prompt

\* engine_defaults.py 57-88, 111-117: return without classification
ResolveReturn ==
    /\ resolve.pc = "decide"
    /\ ~ReachesClassifier(resolve)
    /\ resolve' = [resolve EXCEPT !.pc = "done",
                                  !.result = Resolution(resolve)]
    /\ UNCHANGED notResolve

\* engine_defaults.py 91-109: classify_task is awaited and its routing
\* returned
ResolveClassify(task_type) ==
    /\ resolve.pc = "decide"
    /\ ReachesClassifier(resolve)
    /\ LET route == ROUTING_TABLE[task_type]
       IN  resolve' = [resolve EXCEPT
               !.pc = "done",
               !.called = Append(@, "classify"),
               !.result = [NoResolution EXCEPT
                   !.engine = route.engine,
                   !.source = "auto_classified",
                   !.topic_default = resolve.topic_default,
                   !.chat_default = resolve.chat_default,
                   !.project_default = resolve.project_default,
                   !.classification = task_type,
                   !.model_override = route.model]]
    /\ UNCHANGED notResolve

MaybeEngine == EngineIds \cup {None}

ResolveInit ==
    /\ IdleExcept("resolve")
    /\ resolve = IdleResolve

\* The arguments of a call and what its collaborators hold
ResolveArgs ==
    [explicit_engine : MaybeEngine, stored_topic : MaybeEngine,
     stored_chat : MaybeEngine, runtime_project : MaybeEngine,
     runtime_default : EngineIds, has_topic_store : BOOLEAN,
     has_topic_key : BOOLEAN, has_chat_prefs : BOOLEAN,
     has_prompt : BOOLEAN, auto_classify : BOOLEAN]

ResolveNext ==
    \/ /\ resolve.pc = "idle"
       /\ \E args \in ResolveArgs : ResolveCall(args)
    \/ ResolveLookup
    \/ ResolveReturn
    \/ \E task_type \in TaskTypes : ResolveClassify(task_type)

ResolveSpec == ResolveInit /\ [][ResolveNext]_vars

\* What the stores and the runtime hold for the message, most specific first
ConfiguredDefaults ==
    <<[source |-> "topic_default",
       engine |-> IF resolve.has_topic_store /\ resolve.has_topic_key
                  THEN resolve.stored_topic ELSE None],
      [source |-> "chat_default",
       engine |-> IF resolve.has_chat_prefs
                  THEN resolve.stored_chat ELSE None],
      [source |-> "project_default", engine |-> resolve.runtime_project]>>

Configured == {i \in 1..3 : ConfiguredDefaults[i].engine # None}

FirstConfigured == CHOOSE i \in Configured : \A j \in Configured : i <= j

\* C11: a directive always wins with source directive, whatever the defaults
\* and the auto-classify flag are; without a directive the first configured
\* of topic, chat and project default wins with its source.
C11_Precedence ==
    resolve.pc = "done" =>
        /\ resolve.explicit_engine # None =>
              /\ resolve.result.engine = resolve.explicit_engine
              /\ resolve.result.source = "directive"
        /\ (resolve.explicit_engine = None /\ Configured # {}) =>
              /\ resolve.result.engine
                     = ConfiguredDefaults[FirstConfigured].engine
              /\ resolve.result.source
                     = ConfiguredDefaults[FirstConfigured].source

C11_Witness ==
    /\ resolve.pc = "done"
    /\ resolve.explicit_engine = None
    /\ resolve.topic_default = "codex"
    /\ resolve.chat_default = "claude"
    /\ resolve.auto_classify
    /\ resolve.result.source = "topic_default"
    /\ resolve.result.engine = "codex"

ClassifierCalls ==
    Cardinality({i \in DOMAIN resolve.called : resolve.called[i] = "classify"})

\* C12: the classifier is called only when it is enabled, a prompt is given
\* and no directive or default applies; with nothing applying and the
\* classifier disabled or no prompt, the global fallback engine is returned
\* with source global_default.
C12_ClassifierLast ==
    /\ ClassifierCalls <= 1
    /\ ClassifierCalls = 1 =>
          /\ resolve.auto_classify
          /\ resolve.has_prompt
          /\ resolve.explicit_engine = None
          /\ Configured = {}
    /\ resolve.pc = "done" =>
          /\ (resolve.result.source = "auto_classified")
                 <=> (ClassifierCalls = 1)
          /\ (/\ resolve.explicit_engine = None
              /\ Configured = {}
              /\ ~(resolve.auto_classify /\ resolve.has_prompt)) =>
                 /\ resolve.result.engine = resolve.runtime_default
                 /\ resolve.result.source = "global_default"
                 /\ resolve.result.model_override = None

C12_Witness ==
    /\ resolve.pc = "done"
    /\ ClassifierCalls = 1
    /\ resolve.result.source = "auto_classified"
    /\ resolve.result.engine # resolve.runtime_default
    /\ resolve.has_topic_store
    /\ resolve.has_chat_prefs

\* ------------------------------------------------------------------------
\* Worktree manager: sanitization, containment and resolution order
\* ------------------------------------------------------------------------
\* Python s.split(sep) for a one-character separator
RECURSIVE SplitOn(_, _)
SplitOn(s, sep) ==
    LET at == {i \in DOMAIN s : s[i] = sep}
    IN  IF at = {} THEN <<s>>
        ELSE LET i == CHOOSE i \in at : \A j \in at : i <= j
             IN  <<SubSeq(s, 1, i - 1)>>
                     \o SplitOn(SubSeq(s, i + 1, Len(s)), sep)

DOTDOT == <<".", ".">>

\* Mutant: only a leading `..` segment is rejected
_sanitize_branch_leadingOnly(branch) ==
    LET value == str_strip(branch)
    IN  IF value = <<>>
        THEN [ok |-> FALSE, value |-> <<>>, error |-> "empty"]
        ELSE IF value[1] = "/"
        THEN [ok |-> FALSE, value |-> <<>>, error |-> "slash"]
        ELSE IF SplitOn(value, "/")[1] = DOTDOT
        THEN [ok |-> FALSE, value |-> <<>>, error |-> "dotdot"]
        ELSE [ok |-> TRUE, value |-> value, error |-> None]

\* Branch sanitization: the trimmed name, or the reason it is rejected
_sanitize_branch(branch) ==
    LET value == str_strip(branch)
        parts == SplitOn(value, "/")
    IN  IF value = <<>>
        THEN [ok |-> FALSE, value |-> <<>>, error |-> "empty"]
        ELSE IF value[1] = "/"
        THEN [ok |-> FALSE, value |-> <<>>, error |-> "slash"]
        ELSE IF \E i \in DOMAIN parts : parts[i] = DOTDOT
        THEN [ok |-> FALSE, value |-> <<>>, error |-> "dotdot"]
        ELSE [ok |-> TRUE, value |-> value, error |-> None]

\* A segment a path keeps: not empty and not `.`
IsPathPart(part) == part # <<>> /\ part # <<".">>

\* root / branch: the segments of the joined path; an absolute branch
\* replaces the root
JoinPath(root, branch) ==
    LET parts == SelectSeq(SplitOn(branch, "/"), IsPathPart)
    IN  IF branch # <<>> /\ branch[1] = "/" THEN parts ELSE root \o parts

\* Lexical normalisation: each `..` removes the segment before it
RECURSIVE Normalize(_, _)
Normalize(path, acc) ==
    IF path = <<>> THEN acc
    ELSE IF Head(path) = DOTDOT
    THEN Normalize(Tail(path),
                   IF acc = <<>> THEN acc ELSE SubSeq(acc, 1, Len(acc) - 1))
    ELSE Normalize(Tail(path), Append(acc, Head(path)))

\* Mutant: the root itself passes the containment check
_ensure_within_root_orRoot(root, path) ==
    LET n == Normalize(path, <<>>)
    IN  /\ Len(n) >= Len(root)
        /\ SubSeq(n, 1, Len(root)) = root

\* Containment: path is a lexical descendant of root
_ensure_within_root(root, path) ==
    LET n == Normalize(path, <<>>)
    IN  /\ Len(n) > Len(root)
        /\ SubSeq(n, 1, Len(root)) = root

WtFail(error) ==
    [worktree EXCEPT !.pc = "failed", !.error = error]

\* The log of collaborator calls extended by one call and its answer
WtLog(op, answer) ==
    Append(worktree.calls,
           [op |-> op, path |-> worktree.path, round |-> worktree.round,
            answer |-> answer])

\* ensure_worktree(project, branch) is called; kind is what is at the target
\* path before the first resolution
WtCall(branch, kind) ==
    /\ worktree.pc = "idle"
    /\ worktree' = [IdleWorktree EXCEPT !.pc = "sanitize", !.branch = branch,
                                        !.kind = kind, !.round = 1]
    /\ UNCHANGED notWorktree

\* The same (project, branch) is resolved again
WtRepeat ==
    /\ worktree.pc \in {"done", "failed"}
    /\ worktree.round < MaxResolves
    /\ worktree' = [worktree EXCEPT
           !.pc = "sanitize", !.round = @ + 1, !.sanitized = <<>>,
           !.path = <<>>, !.error = None, !.base_ref = <<>>,
           !.create_branch = FALSE]
    /\ UNCHANGED notWorktree

\* The branch name is sanitized and the target path computed
WtSanitize ==
    /\ worktree.pc = "sanitize"
    /\ LET r == _sanitize_branch(worktree.branch)
       IN  worktree' =
               IF r.ok
               THEN [worktree EXCEPT
                        !.pc = "contain", !.sanitized = r.value,
                        !.path = JoinPath(WORKTREES_ROOT, r.value)]
               ELSE WtFail(r.error)
    /\ UNCHANGED notWorktree

\* The containment check
WtContain ==
    /\ worktree.pc = "contain"
    /\ worktree' =
           IF _ensure_within_root(WORKTREES_ROOT, worktree.path)
           THEN [worktree EXCEPT !.pc = "project"]
           ELSE WtFail("escape")
    /\ UNCHANGED notWorktree

\* The project path is looked up (missing project path fails)
WtProject(exists) ==
    /\ worktree.pc = "project"
    /\ worktree' =
           [(IF exists THEN [worktree EXCEPT !.pc = "exists"]
             ELSE WtFail("project"))
            EXCEPT !.calls = WtLog("project_exists",
                                   IF exists THEN "yes" ELSE "no")]
    /\ UNCHANGED notWorktree

\* Mutant: whatever is at the path is taken for a worktree of the project
WtExists_anyDirectory ==
    /\ worktree.pc = "exists"
    /\ worktree' =
           IF worktree.kind = "absent"
           THEN [worktree EXCEPT !.pc = "local",
                                 !.calls = WtLog("path_exists", "no")]
           ELSE [worktree EXCEPT
                    !.pc = "done",
                    !.calls = WtLog("path_exists", "yes"),
                    !.returned = Append(@, worktree.path)]
    /\ UNCHANGED notWorktree

\* Resolution order 1 and 2: an existing path is reused if it is a confirmed
\* worktree of the project and is a conflict otherwise
WtExists ==
    /\ worktree.pc = "exists"
    /\ worktree' =
           IF worktree.kind = "absent"
           THEN [worktree EXCEPT !.pc = "local",
                                 !.calls = WtLog("path_exists", "no")]
           ELSE IF worktree.kind = "worktree"
           THEN [worktree EXCEPT
                    !.pc = "done",
                    !.calls = WtLog("path_exists", "yes") \o
                        <<[op |-> "is_worktree", path |-> worktree.path,
                           round |-> worktree.round, answer |-> "yes"]>>,
                    !.returned = Append(@, worktree.path)]
           ELSE [WtFail("conflict") EXCEPT
                    !.calls = WtLog("path_exists", "yes") \o
                        <<[op |-> "is_worktree", path |-> worktree.path,
                           round |-> worktree.round, answer |-> "no"]>>]
    /\ UNCHANGED notWorktree

\* Mutant: a branch found locally is created anew
WtLocal_createsBranch(found) ==
    /\ worktree.pc = "local"
    /\ worktree' =
           IF found
           THEN [worktree EXCEPT !.pc = "add", !.create_branch = TRUE,
                                 !.base_ref = worktree.sanitized,
                                 !.calls = WtLog("has_local_branch", "yes")]
           ELSE [worktree EXCEPT !.pc = "remote",
                                 !.calls = WtLog("has_local_branch", "no")]
    /\ UNCHANGED notWorktree

\* Resolution order 3, first case: the branch exists locally
WtLocal(found) ==
    /\ worktree.pc = "local"
    /\ worktree' =
           IF found
           THEN [worktree EXCEPT !.pc = "add", !.create_branch = FALSE,
                                 !.base_ref = <<>>,
                                 !.calls = WtLog("has_local_branch", "yes")]
           ELSE [worktree EXCEPT !.pc = "remote",
                                 !.calls = WtLog("has_local_branch", "no")]
    /\ UNCHANGED notWorktree

REMOTE_PREFIX == <<"o", "/">>

\* Resolution order 3, second case: the branch exists on the remote
WtRemote(found) ==
    /\ worktree.pc = "remote"
    /\ worktree' =
           IF found
           THEN [worktree EXCEPT
                    !.pc = "add", !.create_branch = TRUE,
                    !.base_ref = REMOTE_PREFIX \o worktree.sanitized,
                    !.calls = WtLog("has_remote_branch", "yes")]
           ELSE [worktree EXCEPT !.pc = "base",
                                 !.calls = WtLog("has_remote_branch", "no")]
    /\ UNCHANGED notWorktree

\* Resolution order 3, third case: a default base ref is resolved, or none
WtBase(base) ==
    /\ worktree.pc = "base"
    /\ worktree' =
           IF base = <<>>
           THEN [WtFail("base") EXCEPT
                    !.calls = WtLog("resolve_default_base", "no")]
           ELSE [worktree EXCEPT !.pc = "add", !.create_branch = TRUE,
                                 !.base_ref = base,
                                 !.calls = WtLog("resolve_default_base",
                                                 "yes")]
    /\ UNCHANGED notWorktree

\* The worktree-add of the version-control collaborator
WtAdd(ok) ==
    /\ worktree.pc = "add"
    /\ LET call == [op |-> "worktree_add", path |-> worktree.path,
                    round |-> worktree.round,
                    answer |-> IF ok THEN "yes" ELSE "no",
                    branch |-> worktree.sanitized,
                    create_branch |-> worktree.create_branch,
                    base_ref |-> worktree.base_ref]
       IN  worktree' =
               IF ok
               THEN [worktree EXCEPT
                        !.pc = "done", !.kind = "worktree",
                        !.calls = Append(@, call),
                        !.returned = Append(@, worktree.path)]
               ELSE [WtFail("git") EXCEPT !.calls = Append(@, call)]
    /\ UNCHANGED notWorktree

BranchAlphabet == {"a", "/", ".", " "}

Branches == UNION {[1..n -> BranchAlphabet] : n \in 0..MaxBranchLen}

PathKinds == {"absent", "worktree", "other"}

BaseRefs == {<<>>, <<"m">>}

WorktreeInit ==
    /\ IdleExcept("worktree")
    /\ worktree = IdleWorktree

WorktreeNext ==
    \/ /\ worktree.pc = "idle"
       /\ \E branch \in Branches, kind \in PathKinds : WtCall(branch, kind)
    \/ WtRepeat
    \/ WtSanitize
    \/ WtContain
    \/ \E exists \in BOOLEAN : WtProject(exists)
    \/ WtExists
    \/ \E found \in BOOLEAN : WtLocal(found)
    \/ \E found \in BOOLEAN : WtRemote(found)
    \/ \E base \in BaseRefs : WtBase(base)
    \/ \E ok \in BOOLEAN : WtAdd(ok)

WorktreeSpec == WorktreeInit /\ [][WorktreeNext]_vars

\* Positions of branch that hold a character other than whitespace
Inked(branch) == {i \in DOMAIN branch : branch[i] \notin Whitespace}

\* The branch without its surrounding whitespace
Trimmed(branch) ==
    IF Inked(branch) = {} THEN <<>>
    ELSE SubSeq(branch,
                CHOOSE i \in Inked(branch) : \A j \in Inked(branch) : i <= j,
                CHOOSE i \in Inked(branch) : \A j \in Inked(branch) : j <= i)

\* The name holds a `..` between two segment boundaries
HasDotDotSegment(v) ==
    \E i \in 1..(Len(v) - 1) :
        /\ v[i] = "." /\ v[i + 1] = "."
        /\ i = 1 \/ v[i - 1] = "/"
        /\ i + 1 = Len(v) \/ v[i + 2] = "/"

InvalidBranch(branch) ==
    \/ Trimmed(branch) = <<>>
    \/ Trimmed(branch)[1] = "/"
    \/ HasDotDotSegment(Trimmed(branch))

NameErrors == {"empty", "slash", "dotdot"}

\* C13: a branch that is empty or whitespace-only, starts with `/` or has a
\* `..` segment is rejected by sanitization with a name error before any
\* filesystem or git call; a valid name is only trimmed and may hold slashes.
C13_RejectBeforeCalls ==
    /\ InvalidBranch(worktree.branch) =>
          /\ worktree.calls = <<>>
          /\ worktree.returned = <<>>
          /\ worktree.pc \in {"idle", "sanitize", "failed"}
          /\ worktree.pc = "failed" => worktree.error \in NameErrors
    /\ (~InvalidBranch(worktree.branch)
            /\ worktree.pc \notin {"idle", "sanitize"}) =>
          /\ worktree.sanitized = Trimmed(worktree.branch)
          /\ worktree.error \notin NameErrors

C13_Witness ==
    /\ worktree.branch = <<"a", "/", ".", ".">>
    /\ worktree.pc = "failed"
    /\ worktree.error = "dotdot"
    /\ worktree.round = 2
    /\ worktree.calls = <<>>

\* The path lies under the worktrees root and holds no `..` segment
Inside(path) ==
    /\ Len(path) > Len(WORKTREES_ROOT)
    /\ \A i \in DOMAIN WORKTREES_ROOT : path[i] = WORKTREES_ROOT[i]
    /\ \A i \in DOMAIN path : path[i] # DOTDOT

AddsIssued ==
    Cardinality({i \in DOMAIN worktree.calls :
                    worktree.calls[i].op = "worktree_add"})

\* C15: at an existing path nothing is created: a confirmed worktree is
\* returned as is, anything else is a conflict, and no worktree-add is
\* issued; repeated resolutions return the same path.
C15_ExistingPath ==
    /\ [][(worktree.pc = "exists" /\ worktree.kind # "absent") =>
            /\ AddsIssued' = AddsIssued
            /\ worktree'.kind = worktree.kind
            /\ worktree.kind = "worktree" =>
                  /\ worktree'.pc = "done"
                  /\ worktree'.returned
                         = Append(worktree.returned, worktree.path)
            /\ worktree.kind = "other" =>
                  /\ worktree'.pc = "failed"
                  /\ worktree'.error = "conflict"
                  /\ worktree'.returned = worktree.returned]_vars
    /\ [][AddsIssued' > AddsIssued => worktree.kind = "absent"]_vars
    /\ [](\A i, j \in DOMAIN worktree.returned :
             worktree.returned[i] = worktree.returned[j])

C15_Witness ==
    /\ Len(worktree.returned) = 2
    /\ AddsIssued = 1
    /\ worktree.round = 2
    /\ worktree.pc = "done"

\* The calls of round r with operation op
CallsOf(r, op) ==
    {i \in DOMAIN worktree.calls :
        worktree.calls[i].round = r /\ worktree.calls[i].op = op}

Answered(r, op, answer) ==
    \E i \in CallsOf(r, op) : worktree.calls[i].answer = answer

\* C16: with the path absent, a local branch gets a worktree attached without
\* a new branch; else a remote branch gives a new local branch from the
\* remote ref; else a new branch is made from the resolved base ref; with no
\* base ref no worktree-add is issued; a success issues exactly one.
C16_AbsentOrder ==
    /\ \A i \in DOMAIN worktree.calls :
          LET c == worktree.calls[i]
          IN  c.op = "worktree_add" =>
                /\ Answered(c.round, "path_exists", "no")
                /\ c.branch = Trimmed(worktree.branch)
                /\ IF Answered(c.round, "has_local_branch", "yes")
                   THEN /\ ~c.create_branch
                        /\ c.base_ref = <<>>
                        /\ CallsOf(c.round, "has_remote_branch") = {}
                        /\ CallsOf(c.round, "resolve_default_base") = {}
                   ELSE IF Answered(c.round, "has_remote_branch", "yes")
                   THEN /\ c.create_branch
                        /\ c.base_ref = REMOTE_PREFIX \o c.branch
                        /\ Answered(c.round, "has_local_branch", "no")
                        /\ CallsOf(c.round, "resolve_default_base") = {}
                   ELSE /\ c.create_branch
                        /\ c.base_ref # <<>>
                        /\ Answered(c.round, "has_local_branch", "no")
                        /\ Answered(c.round, "has_remote_branch", "no")
                        /\ Answered(c.round, "resolve_default_base", "yes")
    /\ \A r \in 1..MaxResolves :
          /\ Cardinality(CallsOf(r, "worktree_add")) <= 1
          /\ Answered(r, "resolve_default_base", "no") =>
                CallsOf(r, "worktree_add") = {}
    /\ (Answered(worktree.round, "resolve_default_base", "no")
            /\ worktree.pc \notin {"sanitize"}) =>
          worktree.pc = "failed" /\ worktree.error = "base"
    /\ (worktree.pc = "done"
            /\ Answered(worktree.round, "path_exists", "no")) =>
          Cardinality(CallsOf(worktree.round, "worktree_add")) = 1

C16_Witness ==
    /\ worktree.pc = "done"
    /\ \E i \in DOMAIN worktree.calls :
          /\ worktree.calls[i].op = "worktree_add"
          /\ worktree.calls[i].create_branch
          /\ worktree.calls[i].base_ref = <<"m">>
          /\ worktree.calls[i].branch = <<"a", "/", "a">>

\* ------------------------------------------------------------------------
\* Process supervisor: terminate_process, kill_process, manage_subprocess
\* ------------------------------------------------------------------------
TERM == "terminate"
KILL == "kill"

\* What signaling the process group can answer: unsupported off POSIX;
\* "gone" only once the child has exited
GroupOutcomes(sp) ==
    IF ~sp.posix THEN {"unsupported"}
    ELSE {"ok", "oserror"} \cup (IF sp.child = "dead" THEN {"gone"} ELSE {})

\* What signaling the direct child can answer
ChildOutcomes(sp) ==
    {"ok"} \cup (IF sp.child = "dead" THEN {"gone"} ELSE {})

\* The child after a signal of the tier has reached it: kill always ends
\* it, terminate ends it unless it ignores the signal
Delivered(sp, tier) ==
    IF sp.child = "running" /\ (tier = KILL \/ ~sp.stubborn)
    THEN "dead" ELSE sp.child

\* Mutant: a recorded exit code does not stop the signal
signal_process_noExitCheck(sp, tier, phase, group, direct) ==
    LET viaGroup ==
            [tier |-> tier, phase |-> phase, recorded |-> sp.returncode # NoneInt,
             sigs |-> <<[target |-> "group", outcome |-> group]>>,
             raised |-> FALSE]
        viaChild ==
            [viaGroup EXCEPT
                !.sigs = (IF sp.posix THEN viaGroup.sigs ELSE <<>>)
                         \o <<[target |-> "child", outcome |-> direct]>>]
    IN  IF sp.posix /\ group \in {"ok", "gone"}
        THEN [sp EXCEPT !.invoked = Append(@, viaGroup),
                        !.child = IF group = "ok" THEN Delivered(sp, tier)
                                  ELSE sp.child]
        ELSE [sp EXCEPT !.invoked = Append(@, viaChild),
                        !.child = IF direct = "ok" THEN Delivered(sp, tier)
                                  ELSE sp.child]

\* Mutant: the direct child is signaled first, the group never
signal_process_childOnly(sp, tier, phase, group, direct) ==
    LET entry ==
            [tier |-> tier, phase |-> phase, recorded |-> sp.returncode # NoneInt,
             sigs |-> <<>>, raised |-> FALSE]
    IN  IF sp.returncode # NoneInt
        THEN [sp EXCEPT !.invoked = Append(@, entry)]
        ELSE [sp EXCEPT
                 !.invoked = Append(@, [entry EXCEPT !.sigs =
                     <<[target |-> "child", outcome |-> direct]>>]),
                 !.child = IF direct = "ok" THEN Delivered(sp, tier)
                           ELSE sp.child]

\* One call of terminate_process (tier 1) or kill_process (tier 2): nothing
\* for a recorded exit code; else the process group is signaled, and the
\* direct child only if that is unsupported or fails other than by "gone"
signal_process(sp, tier, phase, group, direct) ==
    LET entry ==
            [tier |-> tier, phase |-> phase, recorded |-> sp.returncode # NoneInt,
             sigs |-> <<>>, raised |-> FALSE]
        viaGroup ==
            [entry EXCEPT !.sigs =
                <<[target |-> "group", outcome |-> group]>>]
        viaChild ==
            [entry EXCEPT !.sigs =
                (IF sp.posix THEN viaGroup.sigs ELSE <<>>)
                \o <<[target |-> "child", outcome |-> direct]>>]
    IN  IF sp.returncode # NoneInt
        THEN [sp EXCEPT !.invoked = Append(@, entry)]
        ELSE IF sp.posix /\ group \in {"ok", "gone"}
        THEN [sp EXCEPT !.invoked = Append(@, viaGroup),
                        !.child = IF group = "ok" THEN Delivered(sp, tier)
                                  ELSE sp.child]
        ELSE [sp EXCEPT !.invoked = Append(@, viaChild),
                        !.child = IF direct = "ok" THEN Delivered(sp, tier)
                                  ELSE sp.child]

\* manage_subprocess opens the child (in a new session on POSIX) and yields
SpOpen(posix, stubborn) ==
    /\ subproc.pc = "idle"
    /\ subproc' = [IdleSubproc EXCEPT !.pc = "scope", !.posix = posix,
                                      !.stubborn = stubborn,
                                      !.child = "running"]
    /\ UNCHANGED notSubproc

\* The child exits by itself
SpChildExits ==
    /\ subproc.child = "running"
    /\ subproc.pc \in {"scope", "cleanup", "grace"}
    /\ subproc' = [subproc EXCEPT !.child = "dead"]
    /\ UNCHANGED notSubproc

\* The caller awaits the child inside the scope: the exit code is recorded
SpWait ==
    /\ subproc.pc = "scope"
    /\ subproc.child = "dead"
    /\ subproc.returncode = NoneInt
    /\ subproc' = [subproc EXCEPT !.returncode = 0]
    /\ UNCHANGED notSubproc

\* The caller calls terminate_process or kill_process inside the scope
SpSignal(tier, group, direct) ==
    /\ subproc.pc = "scope"
    /\ Len(subproc.invoked) < MaxSignalCalls
    /\ group \in GroupOutcomes(subproc)
    /\ direct \in ChildOutcomes(subproc)
    /\ subproc' = signal_process(subproc, tier, "scope", group, direct)
    /\ UNCHANGED notSubproc

\* The body of the scope ends, normally or with an exception
SpBodyEnds(raised) ==
    /\ subproc.pc = "scope"
    /\ subproc' = [subproc EXCEPT !.pc = "cleanup", !.body_raised = raised]
    /\ UNCHANGED notSubproc

\* Scope exit: nothing to do for a recorded exit code, else tier 1 and the
\* wait for the grace period begin
SpCleanup(group, direct) ==
    /\ subproc.pc = "cleanup"
    /\ group \in GroupOutcomes(subproc)
    /\ direct \in ChildOutcomes(subproc)
    /\ subproc' =
           IF subproc.returncode # NoneInt
           THEN [subproc EXCEPT !.pc = "left"]
           ELSE [signal_process(subproc, TERM, "cleanup", group, direct)
                    EXCEPT !.pc = "grace"]
    /\ UNCHANGED notSubproc

\* wait_for_process returns in time: the child has exited
SpGraceDone ==
    /\ subproc.pc = "grace"
    /\ subproc.child = "dead"
    /\ subproc' = [subproc EXCEPT !.pc = "left", !.returncode = 0]
    /\ UNCHANGED notSubproc

\* Mutant: after the grace period the caller waits on without tier 2
SpGraceTimeout_noKill(group, direct) ==
    /\ subproc.pc = "grace"
    /\ group \in GroupOutcomes(subproc)
    /\ direct \in ChildOutcomes(subproc)
    /\ subproc' = [subproc EXCEPT !.pc = "reap", !.timed_out = TRUE]
    /\ UNCHANGED notSubproc

\* wait_for_process times out after the grace period: tier 2, then the
\* child is awaited
SpGraceTimeout(group, direct) ==
    /\ subproc.pc = "grace"
    /\ group \in GroupOutcomes(subproc)
    /\ direct \in ChildOutcomes(subproc)
    /\ subproc' =
           [signal_process([subproc EXCEPT !.timed_out = TRUE],
                           KILL, "cleanup", group, direct)
               EXCEPT !.pc = "reap"]
    /\ UNCHANGED notSubproc

\* The wait after tier 2 returns
SpReap ==
    /\ subproc.pc = "reap"
    /\ subproc.child = "dead"
    /\ subproc' = [subproc EXCEPT !.pc = "left", !.returncode = 0]
    /\ UNCHANGED notSubproc

SignalOutcomes == {"ok", "gone", "oserror", "unsupported"}

SubprocInit ==
    /\ IdleExcept("subproc")
    /\ subproc = IdleSubproc

\* The steps of the scope exit
SpCleanupStep ==
    \/ \E group, direct \in SignalOutcomes : SpCleanup(group, direct)
    \/ SpGraceDone
    \/ \E group, direct \in SignalOutcomes : SpGraceTimeout(group, direct)
    \/ SpReap

SubprocNext ==
    \/ \E posix, stubborn \in BOOLEAN : SpOpen(posix, stubborn)
    \/ SpChildExits
    \/ SpWait
    \/ \E tier \in {TERM, KILL}, group, direct \in SignalOutcomes :
          SpSignal(tier, group, direct)
    \/ \E raised \in BOOLEAN : SpBodyEnds(raised)
    \/ SpCleanupStep

SubprocSpec == SubprocInit /\ [][SubprocNext]_vars

\* C17: a terminate_process or kill_process call on a process whose exit
\* code is recorded sends no signal, to the group or to the child, changes
\* nothing and does not raise, whatever calls came before.
C17_ExitedNoSignal ==
    /\ [](\A i \in DOMAIN subproc.invoked :
            subproc.invoked[i].recorded =>
                /\ subproc.invoked[i].sigs = <<>>
                /\ ~subproc.invoked[i].raised)
    /\ [][(subproc.returncode # NoneInt
              /\ Len(subproc'.invoked) > Len(subproc.invoked)) =>
            /\ subproc'.child = subproc.child
            /\ subproc'.returncode = subproc.returncode
            /\ Last(subproc'.invoked).recorded]_vars

C17_Witness ==
    \E i, j \in DOMAIN subproc.invoked :
        /\ i < j
        /\ subproc.invoked[i].recorded
        /\ subproc.invoked[i].tier = KILL
        /\ subproc.invoked[j].recorded
        /\ subproc.invoked[j].tier = TERM

\* C18: for a running process either tier signals the process group first;
\* "gone" from the group is swallowed without signaling the child; the child
\* is signaled only if group signaling is unsupported or fails otherwise;
\* "gone" from the child is swallowed; no call raises.
C18_GroupFirst ==
    \A i \in DOMAIN subproc.invoked :
        LET e == subproc.invoked[i]
        IN  ~e.recorded =>
              /\ ~e.raised
              /\ e.sigs # <<>>
              /\ subproc.posix =>
                    /\ e.sigs[1].target = "group"
                    /\ e.sigs[1].outcome \in {"ok", "gone"}
                           => Len(e.sigs) = 1
                    /\ e.sigs[1].outcome = "oserror" =>
                           /\ Len(e.sigs) = 2
                           /\ e.sigs[2].target = "child"
              /\ ~subproc.posix =>
                    /\ Len(e.sigs) = 1
                    /\ e.sigs[1].target = "child"

C18_Witness ==
    \E i \in DOMAIN subproc.invoked :
        /\ ~subproc.invoked[i].recorded
        /\ subproc.invoked[i].sigs
               = <<[target |-> "group", outcome |-> "oserror"],
                   [target |-> "child", outcome |-> "gone"]>>

\* The signal calls made by the scope exit, in order
CleanupCalls ==
    SelectSeq(subproc.invoked, LAMBDA e : e.phase = "cleanup")

\* C19: leaving the scope with the child still running applies tier 1, and
\* tier 2 only after the grace period ran out; every state of the scope exit
\* has a next step of the scope exit, and once the scope is left the exit
\* code is recorded.
C19_ScopeExit ==
    /\ [](subproc.pc = "left" => subproc.returncode # NoneInt)
    /\ [](/\ Len(CleanupCalls) <= 2
          /\ Len(CleanupCalls) >= 1 =>
                /\ CleanupCalls[1].tier = TERM
                /\ CleanupCalls[1].sigs # <<>>
          /\ Len(CleanupCalls) = 2 =>
                /\ CleanupCalls[2].tier = KILL
                /\ subproc.timed_out)
    /\ [][(subproc.pc = "cleanup" /\ subproc'.pc # "cleanup"
              /\ subproc.returncode = NoneInt) =>
            /\ Len(subproc'.invoked) = Len(subproc.invoked) + 1
            /\ Last(subproc'.invoked).tier = TERM
            /\ Last(subproc'.invoked).phase = "cleanup"]_vars
    /\ [](subproc.pc \in {"cleanup", "grace", "reap"}
             => ENABLED SpCleanupStep)

C19_Witness ==
    /\ subproc.pc = "left"
    /\ subproc.body_raised
    /\ subproc.stubborn
    /\ subproc.timed_out
    /\ Len(CleanupCalls) = 2
    /\ CleanupCalls[2].sigs
           = <<[target |-> "group", outcome |-> "oserror"],
               [target |-> "child", outcome |-> "ok"]>>

\* ------------------------------------------------------------------------
\* state.py: save_state on a caller-built HeartbeatState, then load_state
\* ------------------------------------------------------------------------
\* state.py 17-25: HeartbeatRun(started_at=i, ok=ok), other fields default
NewRun(i, ok) ==
    [started_at |-> i, completed_at |-> NoneInt, ok |-> ok,
     duration_ms |-> NoneInt, usage |-> NoUsage, error |-> NoneSeq]

\* Histories of n runs, numbered in order
Histories(n) ==
    {[i \in 1..n |-> NewRun(i, oks[i])] : oks \in [1..n -> BOOLEAN]}

\* state.py 29-36: HeartbeatState(name=name, runs=runs, max_runs=max_runs)
TrimBuild(name, runs, max_runs) ==
    /\ trim.pc = "idle"
    /\ trim' = [IdleTrim EXCEPT
           !.pc = "built",
           !.state = [name |-> name, session_id |-> None,
                      last_run_at |-> NoneInt, runs |-> runs,
                      max_runs |-> max_runs],
           !.original = runs]
    /\ UNCHANGED notTrim

\* state.py 68-91: save_state(state) trims state.runs and writes the file
TrimSave ==
    /\ trim.pc = "built"
    /\ trim' = [trim EXCEPT
           !.pc = "saved",
           !.state = TrimRuns(trim.state),
           !.files = save_state(trim.files, trim.state)]
    /\ UNCHANGED notTrim

\* state.py 39-65: load_state(name) reads the file back
TrimLoad ==
    /\ trim.pc = "saved"
    /\ trim' = [trim EXCEPT
           !.pc = "loaded",
           !.loaded = load_state(trim.files, trim.state.name).runs]
    /\ UNCHANGED notTrim

TrimInit ==
    /\ IdleExcept("trim")
    /\ trim = IdleTrim

TrimNext ==
    \/ /\ trim.pc = "idle"
       /\ \E name \in Names, n \in 0..MaxHistory, max_runs \in 0..MaxKeep :
             \E runs \in Histories(n) : TrimBuild(name, runs, max_runs)
    \/ TrimSave
    \/ TrimLoad

TrimSpec == TrimInit /\ [][TrimNext]_vars

\* The last m records of a history, in order
LastRecords(history, m) ==
    [i \in 1..m |-> history[Len(history) - m + i]]

\* C20: after save_state on a history of more than M >= 0 records, the
\* history in memory and the one read back from the file hold exactly the
\* last M records of the original history, in order.
C20_TrimToMax ==
    (trim.pc \in {"saved", "loaded"}
        /\ Len(trim.original) > trim.state.max_runs) =>
        /\ trim.state.runs
               = LastRecords(trim.original, trim.state.max_runs)
        /\ trim.pc = "loaded" =>
               trim.loaded = LastRecords(trim.original, trim.state.max_runs)

\* ------------------------------------------------------------------------
\* state.py: save_state followed by load_state, every field of the state
\* ------------------------------------------------------------------------
\* state.py 17-25: run records that differ from one another in every field
RunRecords ==
    {[started_at |-> 1, completed_at |-> NoneInt, ok |-> FALSE,
      duration_ms |-> NoneInt, usage |-> NoUsage, error |-> NoneSeq],
     [started_at |-> 2, completed_at |-> 3, ok |-> TRUE,
      duration_ms |-> 7, usage |-> Cost, error |-> NoneSeq],
     [started_at |-> 2, completed_at |-> 4, ok |-> FALSE,
      duration_ms |-> 0, usage |-> NoUsage, error |-> ErrorText],
     [started_at |-> 0, completed_at |-> 4, ok |-> TRUE,
      duration_ms |-> NoneInt, usage |-> Cost, error |-> <<>>]}

RunLists == UNION {[1..n -> RunRecords] : n \in 0..MaxRunsLen}

\* state.py 29-36: the HeartbeatState objects a caller can build
BuiltStates ==
    [name : Names, session_id : {None, "s1"}, last_run_at : {NoneInt, 4},
     runs : RunLists, max_runs : 0..MaxRunsLen]

\* state.py 29-36: HeartbeatState(name, session_id, last_run_at, runs,
\* max_runs)
RtBuild(state) ==
    /\ roundtrip.pc = "idle"
    /\ roundtrip' = [IdleRoundtrip EXCEPT
           !.pc = "built", !.original = state, !.state = state]
    /\ UNCHANGED notRoundtrip

\* state.py 68-91: save_state(state)
RtSave ==
    /\ roundtrip.pc = "built"
    /\ ~roundtrip.saved
    /\ roundtrip' = [roundtrip EXCEPT
           !.saved = TRUE,
           !.state = TrimRuns(roundtrip.state),
           !.files = save_state(roundtrip.files, roundtrip.state)]
    /\ UNCHANGED notRoundtrip

\* state.py 39-65: load_state(name)
RtLoad(name) ==
    /\ roundtrip.pc = "built"
    /\ roundtrip' = [roundtrip EXCEPT
           !.pc = "loaded",
           !.loaded_name = name,
           !.loaded = load_state(roundtrip.files, name)]
    /\ UNCHANGED notRoundtrip

RoundtripInit ==
    /\ IdleExcept("roundtrip")
    /\ roundtrip = IdleRoundtrip

RoundtripNext ==
    \/ /\ roundtrip.pc = "idle"
       /\ \E state \in BuiltStates : RtBuild(state)
    \/ RtSave
    \/ \E name \in Names : RtLoad(name)

RoundtripSpec == RoundtripInit /\ [][RoundtripNext]_vars

\* C21: a state whose history is at or below its maximum, saved and then
\* loaded under the same name, comes back with the same resume value, the
\* same last-run timestamp and the same run records in the same order;
\* loading a name that has no file gives a fresh state with no resume value
\* and an empty history.
C21_RoundTrip ==
    roundtrip.pc = "loaded" =>
        /\ (/\ roundtrip.saved
            /\ roundtrip.loaded_name = roundtrip.original.name
            /\ Len(roundtrip.original.runs) <= roundtrip.original.max_runs)
               => /\ roundtrip.loaded.name = roundtrip.original.name
                  /\ roundtrip.loaded.session_id
                         = roundtrip.original.session_id
                  /\ roundtrip.loaded.last_run_at
                         = roundtrip.original.last_run_at
                  /\ roundtrip.loaded.runs = roundtrip.original.runs
        /\ ~roundtrip.files[roundtrip.loaded_name].exists
               => /\ roundtrip.loaded.name = roundtrip.loaded_name
                  /\ roundtrip.loaded.session_id = None
                  /\ roundtrip.loaded.runs = <<>>

C21_Witness ==
    /\ roundtrip.pc = "loaded"
    /\ roundtrip.saved
    /\ roundtrip.loaded_name = roundtrip.original.name
    /\ roundtrip.original.session_id = "s1"
    /\ roundtrip.original.last_run_at = 4
    /\ Len(roundtrip.original.runs) = MaxRunsLen
    /\ roundtrip.original.max_runs = MaxRunsLen
    /\ roundtrip.original.runs[1].usage = Cost
    /\ roundtrip.original.runs[2].error = ErrorText
    /\ roundtrip.loaded.runs = roundtrip.original.runs

\* ------------------------------------------------------------------------
\* classifier.py: the keyword heuristic
\* ------------------------------------------------------------------------
CODING_MIN == 2
QUICK_MATCH_LEN == 100
QUICK_LEN == 50
KEYWORD_CONFIDENCE == 7
HAIKU_CONFIDENCE == 9

\* classifier.py 124-175
coding_signals ==
    <<<<"f", "i", "x">>,
      <<"i", "m", "p", "l", "e", "m", "e", "n", "t">>,
      <<"r", "e", "f", "a", "c", "t", "o", "r">>,
      <<"d", "e", "b", "u", "g">>,
      <<"t", "e", "s", "t">>,
      <<"b", "u", "i", "l", "d">>,
      <<"c", "o", "m", "p", "i", "l", "e">>,
      <<"d", "e", "p", "l", "o", "y">>,
      <<"c", "o", "m", "m", "i", "t">>,
      <<"m", "e", "r", "g", "e">>,
      <<"p", "u", "s", "h">>,
      <<"p", "u", "l", "l">>,
      <<"b", "r", "a", "n", "c", "h">>,
      <<"e", "r", "r", "o", "r">>,
      <<"b", "u", "g">>,
      <<"e", "x", "c", "e", "p", "t", "i", "o", "n">>,
      <<"t", "r", "a", "c", "e", "b", "a", "c", "k">>,
      <<"f", "u", "n", "c", "t", "i", "o", "n">>,
      <<"c", "l", "a", "s", "s">>,
      <<"m", "e", "t", "h", "o", "d">>,
      <<"v", "a", "r", "i", "a", "b", "l", "e">>,
      <<"i", "m", "p", "o", "r", "t">>,
      <<"m", "o", "d", "u", "l", "e">>,
      <<"p", "a", "c", "k", "a", "g", "e">>,
      <<"i", "n", "s", "t", "a", "l", "l">>,
      <<"d", "e", "p", "e", "n", "d", "e", "n", "c", "y">>,
      <<"n", "p", "m">>,
      <<"p", "i", "p">>,
      <<"c", "a", "r", "g", "o">>,
      <<"m", "a", "k", "e">>,
      <<"d", "o", "c", "k", "e", "r", "f", "i", "l", "e">>,
      <<"y", "a", "m", "l">>,
      <<"j", "s", "o", "n">>,
      <<"c", "o", "n", "f", "i", "g">>,
      <<"a", "p", "i">>,
      <<"e", "n", "d", "p", "o", "i", "n", "t">>,
      <<"d", "a", "t", "a", "b", "a", "s", "e">>,
      <<"q", "u", "e", "r", "y">>,
      <<"m", "i", "g", "r", "a", "t", "i", "o", "n">>,
      <<"s", "c", "h", "e", "m", "a">>,
      <<"t", "y", "p", "e">>,
      <<"i", "n", "t", "e", "r", "f", "a", "c", "e">>,
      <<"s", "t", "r", "u", "c", "t">>,
      <<"e", "n", "u", "m">>,
      <<"l", "i", "n", "t">>,
      <<"f", "o", "r", "m", "a", "t">>,
      <<"p", "r", "e", "t", "t", "i", "e", "r">>,
      <<"e", "s", "l", "i", "n", "t">>,
      <<"r", "u", "f", "f">>,
      <<"m", "y", "p", "y">>>>

\* classifier.py 178-198
quick_signals ==
    <<<<"w", "h", "a", "t", " ", "i", "s">>,
      <<"w", "h", "a", "t", "'", "s">>,
      <<"h", "o", "w", " ", "d", "o">>,
      <<"h", "o", "w", " ", "d", "o", "e", "s">>,
      <<"e", "x", "p", "l", "a", "i", "n">>,
      <<"s", "u", "m", "m", "a", "r", "i", "z", "e">>,
      <<"d", "e", "f", "i", "n", "e">>,
      <<"m", "e", "a", "n", "i", "n", "g", " ", "o", "f">>,
      <<"d", "i", "f", "f", "e", "r", "e", "n", "c", "e", " ", "b", "e", "t", "w", "e", "e", "n">>,
      <<"w", "h", "y", " ", "i", "s">>,
      <<"c", "a", "n", " ", "y", "o", "u">>,
      <<"i", "s", " ", "i", "t">>,
      <<"a", "r", "e", " ", "t", "h", "e", "r", "e">>,
      <<"d", "o", "e", "s", " ", "i", "t">>,
      <<"s", "h", "o", "u", "l", "d", " ", "i">>,
      <<"s", "t", "a", "t", "u", "s">>,
      <<"c", "h", "e", "c", "k">>,
      <<"l", "i", "s", "t">>,
      <<"s", "h", "o", "w">>>>

\* The upper-case letters of the inputs and their lower-case forms
LowerOf ==
    [c \in {"C", "F", "T", "W"} |->
        CASE c = "C" -> "c" [] c = "F" -> "f" [] c = "T" -> "t"
          [] c = "W" -> "w"]

\* The lower-case letters of the answers and their upper-case forms
UpperOf ==
    [c \in {"c", "d", "g", "i", "k", "n", "o", "q", "u"} |->
        CASE c = "c" -> "C" [] c = "d" -> "D" [] c = "g" -> "G"
          [] c = "i" -> "I" [] c = "k" -> "K" [] c = "n" -> "N"
          [] c = "o" -> "O" [] c = "q" -> "Q" [] c = "u" -> "U"]

\* str.lower()
str_lower(s) ==
    [i \in DOMAIN s |-> IF s[i] \in DOMAIN LowerOf THEN LowerOf[s[i]]
                        ELSE s[i]]

\* str.upper()
str_upper(s) ==
    [i \in DOMAIN s |-> IF s[i] \in DOMAIN UpperOf THEN UpperOf[s[i]]
                        ELSE s[i]]

\* Python `signal in s`
Occurs(signal, s) ==
    \E i \in 1..(Len(s) - Len(signal) + 1) :
        SubSeq(s, i, i + Len(signal) - 1) = signal

\* classifier.py 201: sum(1 for signal in coding_signals[k..] if signal in
\* prompt_lower)
RECURSIVE CodingScoreFrom(_, _)
CodingScoreFrom(prompt_lower, k) ==
    IF k > Len(coding_signals) THEN 0
    ELSE (IF Occurs(coding_signals[k], prompt_lower) THEN 1 ELSE 0)
             + CodingScoreFrom(prompt_lower, k + 1)

\* classifier.py 201
coding_score(prompt_lower) == CodingScoreFrom(prompt_lower, 1)

\* classifier.py 204
quick_match(prompt_lower) ==
    \E k \in DOMAIN quick_signals : Occurs(quick_signals[k], prompt_lower)

\* Variant that looks for a quick pattern before it counts coding signals
KeywordTaskType_quickFirst(prompt) ==
    LET prompt_lower == str_lower(prompt)
        prompt_len == Len(prompt)
    IN  IF prompt_len < QUICK_MATCH_LEN /\ quick_match(prompt_lower)
        THEN "quick"
        ELSE IF coding_score(prompt_lower) >= CODING_MIN THEN "coding"
        ELSE IF prompt_len < QUICK_LEN THEN "quick"
        ELSE "reasoning"

\* classifier.py 120-121, 206-218: the task type of classify_with_keywords
KeywordTaskType(prompt) ==
    LET prompt_lower == str_lower(prompt)
        prompt_len == Len(prompt)
    IN  IF coding_score(prompt_lower) >= CODING_MIN THEN "coding"
        ELSE IF prompt_len < QUICK_MATCH_LEN /\ quick_match(prompt_lower)
        THEN "quick"
        ELSE IF prompt_len < QUICK_LEN THEN "quick"
        ELSE "reasoning"

\* Variant that reads the default routing table
ClassificationResult_default(table, task_type, confidence, reason) ==
    [raised |-> None, task_type |-> task_type,
     engine |-> ROUTING_TABLE[task_type].engine,
     model |-> ROUTING_TABLE[task_type].model,
     confidence |-> confidence, reason |-> reason]

\* classifier.py 26-34: ClassificationResult(task_type, engine, model,
\* confidence, reason), engine and model read from the routing table
ClassificationResult(table, task_type, confidence, reason) ==
    [raised |-> None, task_type |-> task_type,
     engine |-> table[task_type].engine, model |-> table[task_type].model,
     confidence |-> confidence, reason |-> reason]

\* An exception leaving the call instead of a result
Raises(exc) == [NoClassification EXCEPT !.raised = exc]

\* classifier.py 118-227
classify_with_keywords(table, prompt) ==
    ClassificationResult(table, KeywordTaskType(prompt), KEYWORD_CONFIDENCE,
                         "keyword")

\* classifier.py 105-115
_parse_task_type(answer) ==
    LET upper == str_upper(str_strip(answer))
    IN  IF Occurs(<<"C", "O", "D", "I", "N", "G">>, upper) THEN "coding"
        ELSE IF Occurs(<<"R", "E", "A", "S", "O", "N", "I", "N", "G">>, upper)
        THEN "reasoning"
        ELSE IF Occurs(<<"Q", "U", "I", "C", "K">>, upper) THEN "quick"
        ELSE "reasoning"

\* No response: the call was answered without a request
NoResponse ==
    [transport |-> None, status |-> 0, json |-> None, content |-> None,
     text |-> <<>>]

\* What the request of classifier.py 70-83 can come back with: a transport
\* exception, or a response with a status, a body that is or is not JSON,
\* and in a JSON object a content list that is absent, empty or holds a text
HaikuResponses ==
    {[NoResponse EXCEPT !.transport = "ConnectError"],
     [NoResponse EXCEPT !.transport = "ReadTimeout"],
     [transport |-> "ok", status |-> 529, json |-> "object",
      content |-> "absent", text |-> <<>>],
     [transport |-> "ok", status |-> 200, json |-> "invalid",
      content |-> None, text |-> <<>>],
     [transport |-> "ok", status |-> 200, json |-> "object",
      content |-> "empty", text |-> <<>>],
     [transport |-> "ok", status |-> 200, json |-> "object",
      content |-> "text", text |-> <<" ", "q", "u", "i", "c", "k", "\n">>]}

\* The base class an `except` clause sees for each exception
ExcBase(exc) ==
    CASE exc \in {"ConnectError", "ReadTimeout", "HTTPStatusError"}
             -> "HTTPError"
      [] exc = "JSONDecodeError" -> "ValueError"
      [] OTHER -> exc

\* classifier.py 70-97: the try block, given what the request came back
\* with: the exception it raises, or the task type it returns, or neither
HaikuBody(resp) ==
    IF resp.transport # "ok"
    THEN [exc |-> resp.transport, returned |-> FALSE, task_type |-> None]
    ELSE IF resp.status >= 400
    THEN [exc |-> "HTTPStatusError", returned |-> FALSE, task_type |-> None]
    ELSE IF resp.json = "invalid"
    THEN [exc |-> "JSONDecodeError", returned |-> FALSE, task_type |-> None]
    ELSE IF resp.content = "text"
    THEN [exc |-> None, returned |-> TRUE,
          task_type |-> _parse_task_type(resp.text)]
    ELSE [exc |-> None, returned |-> FALSE, task_type |-> None]

\* classifier.py 84-102: classify_with_haiku from the response on
HaikuAfterResponse(table, prompt, resp) ==
    LET body == HaikuBody(resp)
    IN  IF body.exc # None
               /\ ExcBase(body.exc) \notin {"HTTPError", "KeyError",
                                            "IndexError"}
        THEN Raises(body.exc)
        ELSE IF body.returned
        THEN ClassificationResult(table, body.task_type, HAIKU_CONFIDENCE,
                                  "haiku")
        ELSE classify_with_keywords(table, prompt)

\* ------------------------------------------------------------------------
\* The operations of the classifier module
\* ------------------------------------------------------------------------
\* One returned (or raised) classification
ClsEntry(fn, prompt, credential, response, result) ==
    [fn |-> fn, prompt |-> prompt, credential |-> credential,
     response |-> response, result |-> result]

\* Variant whose category follows the routing table
ClsKeywords_byTable(prompt) ==
    /\ classifier.pending = <<>>
    /\ Len(classifier.history) < MaxClassifications
    /\ classifier' = [classifier EXCEPT
           !.op = "classify_with_keywords",
           !.history = Append(@, ClsEntry("keywords", prompt, FALSE,
               NoResponse,
               IF classifier.table["coding"].engine = "codex"
               THEN classify_with_keywords(classifier.table, prompt)
               ELSE ClassificationResult(classifier.table, "reasoning",
                        KEYWORD_CONFIDENCE, "keyword")))]
    /\ UNCHANGED notClassifier

\* classifier.py 118-227, 246: classify_with_keywords(prompt), also reached
\* as classify_task(prompt, use_llm=False)
ClsKeywords(prompt) ==
    /\ classifier.pending = <<>>
    /\ Len(classifier.history) < MaxClassifications
    /\ classifier' = [classifier EXCEPT
           !.op = "classify_with_keywords",
           !.history = Append(@, ClsEntry("keywords", prompt, FALSE,
               NoResponse,
               classify_with_keywords(classifier.table, prompt)))]
    /\ UNCHANGED notClassifier

\* classifier.py 59-83, 245: classify_with_haiku(prompt) up to its request,
\* also reached as classify_task(prompt, use_llm=True); without a credential
\* it returns the keyword result at once
ClsHaikuCall(prompt) ==
    /\ classifier.pending = <<>>
    /\ Len(classifier.history) < MaxClassifications
    /\ IF ~Truthy(classifier.env["ANTHROPIC_API_KEY"])
       THEN classifier' = [classifier EXCEPT
                !.op = "classify_with_haiku",
                !.history = Append(@, ClsEntry("haiku", prompt, FALSE,
                    NoResponse,
                    classify_with_keywords(classifier.table, prompt)))]
       ELSE classifier' = [classifier EXCEPT
                !.op = "classify_with_haiku",
                !.pending = <<prompt>>]
    /\ UNCHANGED notClassifier

\* classifier.py 84-102: the request is answered and classify_with_haiku
\* returns or raises
ClsHaikuResponse(resp) ==
    /\ classifier.pending # <<>>
    /\ classifier' = [classifier EXCEPT
           !.op = "classify_with_haiku",
           !.pending = <<>>,
           !.history = Append(@, ClsEntry("haiku", classifier.pending[1],
               TRUE, resp,
               HaikuAfterResponse(classifier.table, classifier.pending[1],
                                  resp)))]
    /\ UNCHANGED notClassifier

\* classifier.py 249-258: update_routing(task_type, engine, model)
ClsUpdateRouting(args) ==
    /\ classifier.table[args.task_type]
           # [engine |-> args.engine, model |-> args.model]
    /\ classifier' = [classifier EXCEPT
           !.op = "update_routing",
           !.table[args.task_type] =
               [engine |-> args.engine, model |-> args.model]]
    /\ UNCHANGED notClassifier

\* classifier.py 61: the environment changes under the module
ClsSetEnv(var, value) ==
    /\ classifier.env[var] # value
    /\ classifier' = [classifier EXCEPT !.op = "environ", !.env[var] = value]
    /\ UNCHANGED notClassifier

\* Prompts: a coding one and a short one
ClsTexts == {<<"F", "i", "x", " ", "b", "u", "g">>, <<"z", "z">>}

\* The update_routing calls made
UpdateArgs ==
    {[task_type |-> "coding", engine |-> "claude", model |-> None],
     [task_type |-> "quick", engine |-> "codex", model |-> "gpt-5.2"]}

ClassifierInit ==
    /\ IdleExcept("classifier")
    /\ classifier = IdleClassifier

ClassifierNext ==
    \/ \E prompt \in ClsTexts : ClsKeywords(prompt)
    \/ \E prompt \in ClsTexts : ClsHaikuCall(prompt)
    \/ \E resp \in HaikuResponses : ClsHaikuResponse(resp)
    \/ \E args \in UpdateArgs : ClsUpdateRouting(args)
    \/ \E value \in {None, "k"} : ClsSetEnv("ANTHROPIC_API_KEY", value)
    \/ \E value \in {None, "C"} : ClsSetEnv("LANG", value)

ClassifierSpec == ClassifierInit /\ [][ClassifierNext]_vars

\* ------------------------------------------------------------------------
\* classify_with_keywords over prompts around its thresholds
\* ------------------------------------------------------------------------
KwWords ==
    {<<"F", "i", "x">>, <<"b", "u", "g", "f", "i", "x">>,
     <<"T", "e", "s", "t">>,
     <<"l", "i", "s", "t">>, <<"W", "h", "a", "t", " ", "i", "s">>,
     <<"z", "z">>}

\* The text padded to length n when it is shorter
PadTo(s, n) == IF Len(s) >= n THEN s ELSE s \o Rep("x", n - Len(s))

KwTexts ==
    {PadTo(Concat(ws), n) :
        ws \in UNION {[1..k -> KwWords] : k \in 0..MaxWords},
        n \in {0, QUICK_LEN - 1, QUICK_LEN, QUICK_MATCH_LEN - 1,
               QUICK_MATCH_LEN}}

KeywordInit ==
    /\ IdleExcept("classifier")
    /\ classifier = IdleClassifier

KeywordNext ==
    /\ classifier.history = <<>>
    /\ \E prompt \in KwTexts : ClsKeywords(prompt)

KeywordSpec == KeywordInit /\ [][KeywordNext]_vars

\* ------------------------------------------------------------------------
\* Classifier claims
\* ------------------------------------------------------------------------
\* The entries answered by the keyword heuristic because the auxiliary model
\* was not used or not available
FallbackEntries ==
    {i \in DOMAIN classifier.history :
        /\ classifier.history[i].result.raised = None
        /\ classifier.history[i].result.reason = "keyword"}

CodingKeywordsIn(s) ==
    {w \in {coding_signals[k] : k \in DOMAIN coding_signals} : Occurs(w, s)}

\* Some quick keyword occurs in a text
HasQuickKeyword(s) ==
    \E w \in {quick_signals[k] : k \in DOMAIN quick_signals} : Occurs(w, s)

\* C23: classify_with_keywords always returns a category: coding when at
\* least 2 distinct coding keywords occur in the lower-cased text, also for
\* a short text with a quick keyword; otherwise quick for a text under 100
\* characters with a quick keyword or a text under 50 characters; otherwise
\* reasoning.
C23_KeywordRules ==
    \A i \in DOMAIN classifier.history :
        LET e == classifier.history[i]
            lowered == str_lower(e.prompt)
            coding == Cardinality(CodingKeywordsIn(lowered)) >= 2
            short == \/ Len(e.prompt) < 100 /\ HasQuickKeyword(lowered)
                     \/ Len(e.prompt) < 50
        IN  e.fn = "keywords" =>
                /\ e.result.raised = None
                /\ e.result.task_type \in TaskTypes
                /\ coding => e.result.task_type = "coding"
                /\ (~coding /\ short) => e.result.task_type = "quick"
                /\ (~coding /\ ~short) => e.result.task_type = "reasoning"

C23_Witness ==
    /\ Len(classifier.history) = 1
    /\ classifier.history[1].fn = "keywords"
    /\ classifier.history[1].prompt
           = <<"l", "i", "s", "t", "b", "u", "g", "f", "i", "x">>
    /\ classifier.history[1].result.task_type = "coding"

\* The call behind an entry failed: a transport exception, an HTTP error
\* status, a body that is not JSON, or a body without the expected content
CallFailed(resp) ==
    \/ resp.transport # "ok"
    \/ resp.status >= 400
    \/ resp.json = "invalid"
    \/ resp.content # "text"

\* C24: a classify_with_haiku call without a credential, or whose request
\* fails in any way, returns the keyword heuristic's result for the same
\* text and raises nothing.
C24_FallbackNeverRaises ==
    [][Len(classifier'.history) > Len(classifier.history) =>
          LET e == Last(classifier'.history)
          IN  (e.fn = "haiku" /\ (~e.credential \/ CallFailed(e.response)))
                  => e.result
                         = classify_with_keywords(classifier.table,
                                                  e.prompt)]_vars

\* C25 as stated: every classification result carries the default pair of
\* its category.
C25_FixedPair ==
    \A i \in DOMAIN classifier.history :
        LET r == classifier.history[i].result
        IN  r.raised = None =>
                /\ r.engine = ROUTING_TABLE[r.task_type].engine
                /\ r.model = ROUTING_TABLE[r.task_type].model

\* C25: every classification result carries the pair the routing table
\* holds for its category when the result is built; the table starts as
\* the default one and only update_routing changes it.
C25_TablePair ==
    [][/\ Len(classifier'.history) > Len(classifier.history) =>
            LET r == Last(classifier'.history).result
            IN  r.raised = None =>
                    /\ r.engine = classifier.table[r.task_type].engine
                    /\ r.model = classifier.table[r.task_type].model
       /\ classifier'.table # classifier.table =>
              classifier'.op = "update_routing"
       /\ classifier.op = None => classifier.table = ROUTING_TABLE]_vars

C25_Witness ==
    /\ Len(classifier.history) = 2
    /\ classifier.history[1].result.task_type = "coding"
    /\ classifier.history[1].result.engine = "codex"
    /\ classifier.history[2].result.task_type = "coding"
    /\ classifier.history[2].result.engine = "claude"
    /\ classifier.history[2].result.model = None
    /\ classifier.table["coding"].engine = "claude"

\* ------------------------------------------------------------------------
\* Error handling of the heartbeat command
\* ------------------------------------------------------------------------
\* C26: the completion status is 0 exactly when run_heartbeat returned an ok
\* result, and non-zero for a failed run, whether delivery was not
\* attempted, a send returned false, or delivery raised.
C26_StatusFromResult ==
    \A p \in Procs :
        proc[p].pc = "exited" =>
            /\ proc[p].exit_code = 0 <=> proc[p].result_ok = "True"
            /\ proc[p].result_ok = "False" => proc[p].exit_code = 1
            /\ proc[p].exit_cause = "normal" =>
                   /\ proc[p].result_ok # None
                   /\ proc[p].delivery
                          \in {"not attempted", "sent", "send false", "raised"}

C26_Witness ==
    \E p \in Procs :
        /\ proc[p].pc = "exited"
        /\ proc[p].result_ok = "True"
        /\ proc[p].delivery = "raised"
        /\ proc[p].exit_code = 0

\* C27: when writing the state fails after an engine run that ended ok,
\* run_heartbeat goes on to return the ok result, so that delivery can
\* still be attempted.
C27_PersistErrorTolerated ==
    [][\A p \in Procs :
          (proc[p].pc = "update" /\ proc[p].ok /\ proc'[p].pc # "update")
              => /\ proc'[p].pc = "return"
                 /\ proc'[p].ok]_vars

\* The configured working directory of execution p does not exist
MissingCwd(p) ==
    /\ Truthy(proc[p].settings_cwd)
    /\ proc[p].settings_cwd \notin ExistingDirs

\* C28: with a configured working directory that does not exist the run
\* starts all the same, the process directory stays the original one
\* throughout, and the ok flag of the result is the one the engine run left
\* (false after an exception of the stream).
C28_MissingCwdDegrades ==
    /\ [](\A p \in Procs :
            MissingCwd(p) =>
                /\ cwd = proc[p].original_cwd
                /\ proc[p].pc = "exited"
                       => proc[p].exit_cause \in {"normal", "cancelled", "save"}
                /\ proc[p].pc = "returned" =>
                       /\ proc[p].result.ok = proc[p].ok
                       /\ proc[p].raised # NoneSeq => ~proc[p].result.ok)
    /\ [][\A p \in Procs :
            /\ (proc[p].pc = "idle" /\ MissingCwd(p)')
                   => proc'[p].pc = "stream" /\ cwd' = cwd
            /\ (MissingCwd(p) /\ proc'[p].ok # proc[p].ok)
                   => \/ proc[p].pc = "stream"
                         /\ proc'[p].nEvents = proc[p].nEvents + 1
                      \/ proc[p].pc = "stream" /\ proc'[p].raised # NoneSeq
                      \/ proc'[p].pc = "exited"]_vars

C28_Witness ==
    \E p \in Procs :
        /\ proc[p].pc = "returned"
        /\ MissingCwd(p)
        /\ proc[p].nEvents >= 1
        /\ proc[p].result.ok
        /\ cwd = proc[p].original_cwd

\* ------------------------------------------------------------------------
\* heartbeat/notify.py send_telegram_notification and telegram.py
\* TelegramClient._post
\* ------------------------------------------------------------------------
\* What a sendMessage request can come back with: a transport exception,
\* or a response with a status and a body that is not JSON, a JSON array,
\* or a JSON object with or without "ok" and "result"
TgResponses ==
    {[transport |-> "ConnectError", status |-> 0, json |-> None,
      ok |-> None, result |-> None],
     [transport |-> "ReadTimeout", status |-> 0, json |-> None,
      ok |-> None, result |-> None],
     [transport |-> "ok", status |-> 502, json |-> "invalid",
      ok |-> None, result |-> None],
     [transport |-> "ok", status |-> 400, json |-> "object",
      ok |-> "false", result |-> None],
     [transport |-> "ok", status |-> 200, json |-> "invalid",
      ok |-> None, result |-> None],
     [transport |-> "ok", status |-> 200, json |-> "array",
      ok |-> None, result |-> None],
     [transport |-> "ok", status |-> 200, json |-> "object",
      ok |-> "absent", result |-> None],
     [transport |-> "ok", status |-> 200, json |-> "object",
      ok |-> "false", result |-> None],
     [transport |-> "ok", status |-> 200, json |-> "object",
      ok |-> "true", result |-> "message"]}

\* What an operation gave its caller: a value, or an exception
Returns(value) == [raised |-> None, value |-> value]
Throws(exc) == [raised |-> exc, value |-> None]

\* notify.py 182-207: the try block of send_telegram_notification
SendBody(resp) ==
    IF resp.transport # "ok" THEN Throws(resp.transport)
    ELSE IF resp.status >= 400 THEN Throws("HTTPStatusError")
    ELSE IF resp.json = "invalid" THEN Throws("JSONDecodeError")
    ELSE IF resp.json # "object" THEN Throws("AttributeError")
    ELSE IF resp.ok = "true" THEN Returns("True")
    ELSE Returns("False")

\* Variant whose except clause names httpx.HTTPError only
send_telegram_notification_httpOnly(resp) ==
    LET body == SendBody(resp)
    IN  IF body.raised # None /\ ExcBase(body.raised) = "HTTPError"
        THEN Returns("False")
        ELSE body

\* notify.py 172-210: `except Exception` turns every exception into False
send_telegram_notification(resp) ==
    LET body == SendBody(resp)
    IN  IF body.raised # None THEN Returns("False") ELSE body

\* telegram.py 71-129
_post(resp) ==
    IF resp.transport # "ok"
    THEN (IF ExcBase(resp.transport) = "HTTPError" THEN Returns(None)
          ELSE Throws(resp.transport))
    ELSE IF resp.status >= 400 THEN Returns(None)
    ELSE IF resp.json = "invalid" THEN Returns(None)
    ELSE IF resp.json # "object" THEN Returns(None)
    ELSE IF resp.ok # "true" THEN Returns(None)
    ELSE Returns(resp.result)

\* notify.py 172-210: one send_telegram_notification call
TgSend(resp) ==
    /\ Len(transport.calls) < MaxSends
    /\ transport' = [transport EXCEPT
           !.calls = Append(@, [fn |-> "send_telegram_notification",
                                response |-> resp,
                                outcome |-> send_telegram_notification(resp)])]
    /\ UNCHANGED notTransport

\* telegram.py 71-129: one TelegramClient._post call
TgPost(resp) ==
    /\ Len(transport.calls) < MaxSends
    /\ transport' = [transport EXCEPT
           !.calls = Append(@, [fn |-> "_post", response |-> resp,
                                outcome |-> _post(resp)])]
    /\ UNCHANGED notTransport

TransportInit ==
    /\ IdleExcept("transport")
    /\ transport = IdleTransport

TransportNext ==
    \/ \E resp \in TgResponses : TgSend(resp)
    \/ \E resp \in TgResponses : TgPost(resp)

TransportSpec == TransportInit /\ [][TransportNext]_vars

\* The response reports ok: status below 400, a JSON object, "ok" true
ReportsOk(resp) ==
    /\ resp.transport = "ok"
    /\ resp.status < 400
    /\ resp.json = "object"
    /\ resp.ok = "true"

\* C29: no send operation raises; send_telegram_notification returns True
\* exactly when the response reports ok and False on a transport failure,
\* an HTTP error status, a malformed body or an ok of false; _post returns
\* None in each of those cases.
C29_SendsNeverThrow ==
    \A i \in DOMAIN transport.calls :
        LET call == transport.calls[i]
        IN  /\ call.outcome.raised = None
            /\ call.fn = "send_telegram_notification" =>
                   call.outcome.value
                       = (IF ReportsOk(call.response) THEN "True"
                          ELSE "False")
            /\ (call.fn = "_post" /\ ~ReportsOk(call.response)) =>
                   call.outcome.value = None

C29_Witness ==
    /\ Len(transport.calls) = 2
    /\ transport.calls[1].fn = "send_telegram_notification"
    /\ transport.calls[1].response.json = "invalid"
    /\ transport.calls[1].response.status = 200
    /\ transport.calls[1].outcome = Returns("False")
    /\ transport.calls[2].fn = "_post"
    /\ transport.calls[2].response.transport = "ReadTimeout"
    /\ transport.calls[2].outcome = Returns(None)

\* ------------------------------------------------------------------------
\* cli/send.py _poll_for_reply; time is counted in ticks
\* ------------------------------------------------------------------------
POLL_CAP == 30
HTTP_SLACK == 10
BACKOFF == 2

Min(a, b) == IF a <= b THEN a ELSE b

\* send.py 137-157: _poll_for_reply(timeout_s=timeout, expect_callback=...)
PollCall(timeout, expect_callback) ==
    /\ poll.pc = "idle"
    /\ poll' = [IdlePoll EXCEPT !.pc = "top", !.timeout = timeout,
                                !.expect_callback = expect_callback]
    /\ UNCHANGED notPoll

\* Variant without the cap on the long-poll timeout
PollTop_uncapped ==
    /\ poll.pc = "top"
    /\ LET remaining == poll.timeout - poll.elapsed
           poll_timeout == remaining \div TicksPerSecond
       IN  IF poll.elapsed >= poll.timeout \/ poll_timeout <= 0
           THEN poll' = [poll EXCEPT !.pc = "returned", !.result = None]
           ELSE poll' = [poll EXCEPT
                    !.pc = "request",
                    !.fault = None,
                    !.param_offset = poll.offset,
                    !.poll_timeout = poll_timeout,
                    !.http_timeout = poll_timeout + HTTP_SLACK]
    /\ UNCHANGED notPoll

\* send.py 158-180: the head of the loop: the deadline checks, then the
\* getUpdates request is issued with its two timeouts
PollTop ==
    /\ poll.pc = "top"
    /\ LET remaining == poll.timeout - poll.elapsed
           poll_timeout == Min(POLL_CAP, remaining \div TicksPerSecond)
       IN  IF poll.elapsed >= poll.timeout \/ poll_timeout <= 0
           THEN poll' = [poll EXCEPT !.pc = "returned", !.result = None]
           ELSE poll' = [poll EXCEPT
                    !.pc = "request",
                    !.fault = None,
                    !.param_offset = poll.offset,
                    !.poll_timeout = poll_timeout,
                    !.http_timeout = poll_timeout + HTTP_SLACK]
    /\ UNCHANGED notPoll

\* The times a request can take: one tick, the long-poll timeout, or the
\* whole HTTP timeout
RequestTimes ==
    {1, poll.poll_timeout * TicksPerSecond,
     poll.http_timeout * TicksPerSecond}

\* send.py 176-180, 218-219: the request raises httpx.TimeoutException and
\* the loop continues at once
PollTimeoutException(d) ==
    /\ poll.pc = "request"
    /\ poll' = [poll EXCEPT !.pc = "top", !.elapsed = @ + d,
                            !.fault = "timeout"]
    /\ UNCHANGED notPoll

\* send.py 176-188, 220-222: the request, raise_for_status, resp.json() or
\* decode_updates raises another exception; it is logged
PollException(d) ==
    /\ poll.pc = "request"
    /\ d <= poll.poll_timeout * TicksPerSecond
    /\ poll' = [poll EXCEPT !.pc = "backoff", !.elapsed = @ + d,
                            !.fault = "exception"]
    /\ UNCHANGED notPoll

\* send.py 184-186: the response says ok false
PollNotOk(d) ==
    /\ poll.pc = "request"
    /\ d <= poll.poll_timeout * TicksPerSecond
    /\ poll' = [poll EXCEPT !.pc = "backoff", !.elapsed = @ + d,
                            !.fault = "not ok"]
    /\ UNCHANGED notPoll

\* send.py 185, 222: anyio.sleep(2), then the loop goes round
PollBackoff ==
    /\ poll.pc = "backoff"
    /\ poll' = [poll EXCEPT !.pc = "top",
                            !.elapsed = @ + BACKOFF * TicksPerSecond]
    /\ UNCHANGED notPoll

\* send.py 194-216: does this update end the call? A click counts when
\* callbacks are expected and the clicked message has the awaited id; a
\* message counts when it is in the chat and replies to the awaited id
Matches(upd, expect_callback) ==
    \/ /\ expect_callback
       /\ upd.kind = "callback"
       /\ upd.target = "awaited"
    \/ /\ upd.kind = "message"
       /\ upd.chat = "this"
       /\ upd.target = "awaited"

\* The position of the first update of the batch that ends the call, or 0
FirstMatch(batch, expect_callback) ==
    LET hits == {k \in DOMAIN batch : Matches(batch[k], expect_callback)}
    IN  IF hits = {} THEN 0
        ELSE CHOOSE k \in hits : \A j \in hits : k <= j

\* Variant with an inclusive offset
NextOffset_inclusive(update_id) == update_id

\* send.py 191: offset = upd.update_id + 1
NextOffset(update_id) == update_id + 1

\* getUpdates: the first update id of the response to the request in
\* flight. The server answers with its updates from the offset parameter
\* on, and with all of them (the first has id 1) when there is none.
ResponseFrom ==
    IF poll.param_offset = NoneInt THEN 1 ELSE poll.param_offset

\* send.py 188-216: the response carries the updates the server still keeps
\* (all gone through before without a match) followed by a batch of new
\* ones; each update moves the offset, the first one that matches ends the
\* call with its data
PollUpdates(batch, d) ==
    /\ poll.pc = "request"
    /\ d <= poll.poll_timeout * TicksPerSecond
    /\ batch = <<>> => d = poll.poll_timeout * TicksPerSecond
    /\ LET hit == FirstMatch(batch, poll.expect_callback)
           last == IF hit = 0 THEN poll.next_id + Len(batch) - 1
                   ELSE poll.next_id + hit - 1
           server == [poll EXCEPT
                         !.elapsed = @ + d,
                         !.next_id = @ + Len(batch)]
           through == IF last < ResponseFrom THEN server
                      ELSE [server EXCEPT
                               !.offset = NextOffset(last),
                               !.seen_max = Max(@, last)]
       IN  IF hit = 0
           THEN poll' = [through EXCEPT !.pc = "top"]
           ELSE poll' = [through EXCEPT
                    !.pc = "returned",
                    !.result = batch[hit].data,
                    !.returned_update = batch[hit]]
    /\ UNCHANGED notPoll

\* Updates: messages and button clicks, in the chat or in another one, on
\* the awaited message id or on another (message ids are per chat, so a
\* message of another chat can carry the awaited id)
Updates ==
    {[kind |-> "message", chat |-> "this", target |-> "awaited", data |-> ""],
     [kind |-> "message", chat |-> "this", target |-> "other", data |-> "no"],
     [kind |-> "message", chat |-> "other", target |-> "awaited",
      data |-> "no"],
     [kind |-> "callback", chat |-> "this", target |-> "awaited",
      data |-> "pick"],
     [kind |-> "callback", chat |-> "other", target |-> "awaited",
      data |-> "stray"]}

Batches == UNION {[1..n -> Updates] : n \in 0..2}

\* Overall timeouts, in ticks
PollTimeouts ==
    {0, 1, TicksPerSecond + 1, 2 * TicksPerSecond,
     MaxPollSeconds * TicksPerSecond + 1}

PollInit ==
    /\ IdleExcept("poll")
    /\ poll = IdlePoll

PollNext ==
    \/ \E timeout \in PollTimeouts, expect_callback \in BOOLEAN :
          PollCall(timeout, expect_callback)
    \/ PollTop
    \/ \E d \in RequestTimes : PollTimeoutException(d)
    \/ \E d \in RequestTimes : PollException(d)
    \/ \E d \in RequestTimes : PollNotOk(d)
    \/ PollBackoff
    \/ /\ poll.pc = "request"
       /\ \E batch \in Batches, d \in RequestTimes : PollUpdates(batch, d)

PollSpec == PollInit /\ [][PollNext]_vars

\* ------------------------------------------------------------------------
\* Properties of _poll_for_reply
\* ------------------------------------------------------------------------
\* The longest a call can last beyond its start, in ticks
PollHorizon == poll.timeout + (POLL_CAP + HTTP_SLACK) * TicksPerSecond

\* Strictly decreasing along every step of a call
PollMeasure ==
    2 * (PollHorizon - poll.elapsed)
        + (IF poll.pc \in {"top", "backoff"} THEN 1 ELSE 0)

\* The request just made met a fault
FaultStep == poll.pc = "request" /\ poll'.fault # None

\* What holds of every step of a call whatever the fault: the long-poll
\* timeout of a request is at most 30 seconds and at most the time left,
\* the HTTP timeout is 10 seconds more, a fault never ends the call, a
\* backoff lasts 2 seconds, the measure decreases, None is returned only at
\* the head of the loop with less than a second left, and anything else
\* returned is the data of the first matching update
PollStep ==
    /\ (poll.pc = "top" /\ poll'.pc = "request") =>
           /\ poll'.poll_timeout >= 1
           /\ poll'.poll_timeout <= 30
           /\ poll'.poll_timeout * TicksPerSecond
                  <= poll.timeout - poll.elapsed
           /\ poll'.http_timeout = poll'.poll_timeout + 10
    /\ FaultStep => poll'.pc \in {"top", "backoff"}
    /\ poll.pc = "backoff" =>
           /\ poll'.pc = "top"
           /\ poll'.elapsed = poll.elapsed + 2 * TicksPerSecond
    /\ poll.pc # "idle" => PollMeasure' < PollMeasure
    /\ (poll.pc = "top" /\ poll.elapsed >= poll.timeout)
           => poll'.pc = "returned"
    /\ (poll.pc = "top" /\ poll'.pc = "returned") =>
           /\ poll'.result = None
           /\ poll.timeout - poll.elapsed < TicksPerSecond
    /\ (poll.pc = "request" /\ poll'.pc = "returned") =>
           /\ poll'.fault = None
           /\ poll'.result = poll'.returned_update.data
           /\ Matches(poll'.returned_update, poll.expect_callback)
           /\ poll'.returned_update.kind = "callback"
                  => poll.expect_callback

\* C30 as stated: after every transient fault, a request timeout included,
\* the call backs off before it polls again.
C30_BackoffOnEveryFault ==
    /\ [](0 <= PollMeasure)
    /\ [][PollStep /\ (FaultStep => poll'.pc = "backoff")]_vars

\* C30: a transient fault never ends the call: after a request exception or
\* an ok of false it sleeps 2 seconds and polls again, after a request
\* timeout it polls again at once; every request has a long-poll timeout of
\* at most 30 seconds and at most the time left (its HTTP timeout is 10
\* seconds more); every step brings the end nearer, and the call returns the
\* first matching reply, or None once less than a second is left.
C30_PollTerminates ==
    /\ [](0 <= PollMeasure)
    /\ [][/\ PollStep
          /\ FaultStep =>
                 /\ poll'.fault \in {"exception", "not ok"}
                        => poll'.pc = "backoff"
                 /\ poll'.fault = "timeout"
                        => /\ poll'.pc = "top"
                           /\ poll'.elapsed <= poll.elapsed
                                  + poll.http_timeout * TicksPerSecond]_vars

C30_Witness ==
    /\ poll.pc = "returned"
    /\ poll.result = None
    /\ poll.fault = "timeout"
    /\ poll.timeout = MaxPollSeconds * TicksPerSecond + 1
    /\ poll.elapsed > poll.timeout
    /\ poll.offset # NoneInt

\* ------------------------------------------------------------------------
\* Two run_heartbeat executions in one process, interleaved step by step
\* ------------------------------------------------------------------------
\* executor.py 110-113: the directory each execution is configured with
ConcCwd == [p \in Procs |-> IF p = 1 THEN "work" ELSE "docs"]

\* executor.py 131-145: the events the engine run of each execution yields
ConcEvents(p) ==
    {Event("started", FALSE, <<>>, NoneSeq, NoUsage,
           ClaudeToken(IF p = 1 THEN "s1" ELSE "s2")),
     Event("completed", TRUE, ShortAnswer, NoneSeq, NoUsage, NoToken)}

\* The configured tasks: a task name is a key of the settings table, taken
\* as it is (cli/heartbeat.py 62-78)
AliasName == <<".", "/", "a">>
ConcNames == Names \cup {AliasName}

\* executor.py 74-187: one step of execution p of run_heartbeat
ConcStep(p) ==
    \/ \E name \in ConcNames : RunStart(p, name, TRUE, ConcCwd[p])
    \/ \E event \in ConcEvents(p) : RunEvent(p, event)
    \/ RunStreamEnd(p)
    \/ RunFinally(p)
    \/ RunSave(p)
    \/ RunReturn(p)

ConcInit ==
    /\ IdleExcept("run")
    /\ disk \in {[n \in Names |-> NoFile],
                 [n \in Names |-> SavedFile(1, "s0")]}
    /\ cwd = HOME
    /\ now = 2 * MAX_RUNS + 1
    /\ proc = [p \in Procs |-> IdleProc]

ConcNext == \E p \in Procs : ConcStep(p)

ConcSpec == ConcInit /\ [][ConcNext]_vars

\* ------------------------------------------------------------------------
\* Properties of interleaved executions
\* ------------------------------------------------------------------------
\* The other execution
Other(p) == 3 - p

\* C31: every execution switches to its configured directory whatever the
\* process directory is, remembers the directory it found and restores that
\* one; with the other execution not started this keeps the engine run in
\* its own directory and ends in the original directory, and with both in
\* flight nothing more is guaranteed.
C31_SwitchUnguarded ==
    /\ [](\A p \in Procs :
            proc[Other(p)].pc = "idle" =>
                /\ proc[p].pc = "stream" => cwd = proc[p].settings_cwd
                /\ proc[p].pc \in {"update", "return", "returned"}
                       => cwd = HOME)
    /\ [][\A p \in Procs :
            /\ (proc[p].pc = "idle" /\ proc'[p].pc = "stream") =>
                   /\ proc'[p].original_cwd = cwd
                   /\ cwd' = proc'[p].settings_cwd
            /\ (proc[p].pc = "finally" /\ proc'[p].pc # "finally") =>
                   cwd' = proc[p].original_cwd]_vars

\* Both executions have finished and the process is left in the directory
\* of one of them; on the way the first engine run was moved into the
\* directory of the second
C31_Witness ==
    /\ \A p \in Procs : proc[p].pc = "returned"
    /\ proc[1].nEvents >= 1
    /\ proc[2].original_cwd = proc[1].settings_cwd
    /\ cwd # HOME
    /\ cwd = proc[1].settings_cwd

\* ------------------------------------------------------------------------
\* The event stream of one run
\* ------------------------------------------------------------------------
\* Execution p has consumed a Completed event: every Completed event leaves
\* ok true or an error, which no other step of the stream does
HasCompleted(p) ==
    /\ proc[p].pc = "stream"
    /\ proc[p].ok \/ proc[p].error # NoneSeq

\* C32: once a Completed event has been consumed, a further event of the
\* same stream changes nothing of the recorded outcome (ok, answer, error,
\* usage, resume value).
C32_CompletedTerminal ==
    [][\A p \in Procs :
          (HasCompleted(p) /\ proc'[p].pc = "stream"
              /\ proc'[p].nEvents = proc[p].nEvents + 1)
          => /\ proc'[p].ok = proc[p].ok
             /\ proc'[p].answer = proc[p].answer
             /\ proc'[p].error = proc[p].error
             /\ proc'[p].usage = proc[p].usage
             /\ proc'[p].session_id = proc[p].session_id]_vars

\* ------------------------------------------------------------------------
\* format_notification_messages over names, errors and answers of any length
\* ------------------------------------------------------------------------
\* A task name is a key of the settings table; no length or alphabet is
\* imposed on it (cli/heartbeat.py 62-75)
NotifNames == {<<"a">>, <<"a", "&", "b">>, Rep("'", QuotedNameLen)}

NotifErrors == {NoneSeq, ErrorText, Rep("'", ERROR_SLICE + 100)}

NotifAnswers == {<<>>, ShortAnswer, LongAnswer, Rep("x", 40) \o <<"\n", "y">>}

NotifResults ==
    [ok : BOOLEAN, answer : NotifAnswers, session_id : {None},
     duration_ms : {100, 61000}, usage : {NoUsage, Cost},
     error : NotifErrors]

\* notify.py 122-169
NotifFormat(name, result) ==
    /\ notification.pc = "idle"
    /\ notification' =
           [pc |-> "done", name |-> name, result |-> result,
            messages |-> format_notification_messages(name, result)]
    /\ UNCHANGED notNotification

\* The caller has sent the list; the next call starts afresh
NotifReturn ==
    /\ notification.pc = "done"
    /\ notification' = IdleNotification
    /\ UNCHANGED notNotification

NotificationInit ==
    /\ IdleExcept("notification")
    /\ notification = IdleNotification

NotificationNext ==
    \/ \E name \in NotifNames, result \in NotifResults :
           NotifFormat(name, result)
    \/ NotifReturn

NotificationSpec == NotificationInit /\ [][NotificationNext]_vars

\* The splitter's accounting of s[lo..hi]: the sum of the per-character
\* escaped lengths
RECURSIVE EscapedLenSum(_, _, _)
EscapedLenSum(s, lo, hi) ==
    IF lo > hi THEN 0
    ELSE IF lo = hi THEN _html_escaped_len(s[lo])
    ELSE LET mid == (lo + hi) \div 2
         IN  EscapedLenSum(s, lo, mid) + EscapedLenSum(s, mid + 1, hi)

\* The chunks behind the <pre> messages of the last call (notify.py 157-163)
NotifChunks ==
    _split_for_html_pre(
        _extract_summary(notification.result.answer, SUMMARY_LINES),
        TELEGRAM_MESSAGE_MAX_CHARS - _PRE_OVERHEAD_CHARS)

\* Message i > 1 wraps chunk i - 1, and the splitter's count for the chunk
\* is the length of the escaped text inside the wrapper
AccountedExactly(i) ==
    LET chunk == NotifChunks[i - 1]
    IN  /\ notification.messages[i]
               = PRE_OPEN \o html_escape(chunk) \o PRE_CLOSE
        /\ EscapedLenSum(chunk, 1, Len(chunk))
               = Len(PreBody(notification.messages[i]))

\* C33: every message returned by format_notification_messages, the header
\* as well as each <pre> chunk message, is at most 4096 characters long, and
\* the per-character accounting of a chunk equals the length of its escaped
\* text.
C33_MessagesWithinLimit ==
    notification.pc = "done" =>
        \A i \in DOMAIN notification.messages :
            /\ Len(notification.messages[i]) <= TELEGRAM_MESSAGE_MAX_CHARS
            /\ i > 1 => AccountedExactly(i)

\* What the code does ensure: the chunk messages are within the limit and
\* accounted exactly; the header is the escaped name, the duration, the
\* cost and at most ERROR_SLICE escaped characters of the error, unchecked.
NotifChunksWithinLimit ==
    notification.pc = "done" =>
        \A i \in DOMAIN notification.messages :
            i > 1 =>
                /\ Len(notification.messages[i]) <= TELEGRAM_MESSAGE_MAX_CHARS
                /\ AccountedExactly(i)

\* The header of a quoted name with a quoted error overshoots the limit
NotifHeaderTooLong ==
    /\ notification.pc = "done"
    /\ Len(notification.messages[1]) > TELEGRAM_MESSAGE_MAX_CHARS

\* ------------------------------------------------------------------------
\* Where a chunk ends
\* ------------------------------------------------------------------------
\* The in-budget window of the chunk that begins after index s: the longest
\* run of characters from there whose escaped lengths sum to at most max
WindowEnd(txt, max, s) ==
    CHOOSE e \in s..Len(txt) :
        /\ EscapedLenSum(txt, s + 1, e) <= max
        /\ e = Len(txt) \/ EscapedLenSum(txt, s + 1, e + 1) > max

NewlinesIn(txt, lo, hi) == {j \in lo..hi : txt[j] = "\n"}

\* C34: in one pass of the outer loop, a remainder that fits is emitted as
\* one chunk; otherwise, if the in-budget window holds a newline the chunk
\* ends right after the last newline of the window, and if it holds none the
\* chunk ends at the budget boundary (after one character when not even one
\* fits).
C34_NewlinePreference ==
    [][(splitPc = "loop" /\ start < Len(text)) =>
          LET w == WindowEnd(text, max_escaped_chars, start)
              nls == NewlinesIn(text, start + 1, w)
              end == IF w = Len(text) THEN w
                     ELSE IF nls # {}
                     THEN CHOOSE j \in nls : \A k \in nls : k <= j
                     ELSE IF w = start THEN start + 1
                     ELSE w
          IN  /\ start' = end
              /\ chunks' = Append(chunks, SubSeq(text, start + 1, end))]_vars

\* A chunk was cut after a newline although the budget had room for the
\* character that follows it
C34_Witness ==
    /\ splitPc = "loop"
    /\ chunks # <<>>
    /\ start < Len(text)
    /\ text[start] = "\n"
    /\ LET from == start - Len(chunks[Len(chunks)])
       IN  /\ EscapedLenSum(text, from + 1, start + 1) <= max_escaped_chars
           /\ WindowEnd(text, max_escaped_chars, from) < Len(text)

\* ------------------------------------------------------------------------
\* A prompt that cannot be loaded
\* ------------------------------------------------------------------------
\* Execution p ends in this step on the FileNotFoundError of load_prompt
PromptFails(p) == proc[p].pc = "idle" /\ proc'[p].exit_cause = "prompt"

\* C35: a missing prompt file makes run_heartbeat raise before the runner is
\* started and before the working directory is switched: the step changes
\* neither the state files nor the working directory, no event was consumed,
\* nothing was saved or returned, and the process exits with code 1.
C35_PromptMissingIsFatal ==
    /\ [][\A p \in Procs : PromptFails(p) =>
            /\ disk' = disk
            /\ cwd' = cwd
            /\ now' = now]_vars
    /\ [](\A p \in Procs : proc[p].exit_cause = "prompt" =>
            /\ proc[p].pc = "exited"
            /\ proc[p].exit_code = 1
            /\ proc[p].started_at = NoneInt
            /\ proc[p].nEvents = 0
            /\ proc[p].saves = 0
            /\ proc[p].result_ok = None
            /\ proc[p].original_cwd = None)

\* The run of a task with a saved history and resume value failed on its
\* prompt; the file is still there
C35_Witness ==
    \E p \in Procs :
        /\ proc[p].exit_cause = "prompt"
        /\ disk[proc[p].name].exists
        /\ disk[proc[p].name].session_id = "s0"
        /\ Len(disk[proc[p].name].runs) = MAX_RUNS
        /\ cwd = HOME

\* ------------------------------------------------------------------------
\* One task run again and again, each execution after the one before it
\* ------------------------------------------------------------------------
SeqTask == <<"a">>
SeqStart == 1

\* Executions begun so far: the clock is read at the start of an execution
\* and when its record is built (executor.py 104, 154)
SeqBegun == (now - SeqStart + 1) \div 2

\* The engine's answer to the i-th execution: one Completed event, a success
\* on even executions and a failure on odd ones
SeqEvent(i) ==
    IF i % 2 = 0
    THEN Event("completed", TRUE, ShortAnswer, NoneSeq, NoUsage,
               ClaudeToken("s1"))
    ELSE Event("completed", FALSE, <<>>, ErrorText, NoUsage, NoToken)

\* cli/heartbeat.py 73-121: the process of one execution has ended and the
\* scheduler starts the next
RunAgain(p) ==
    /\ proc[p].pc = "returned"
    /\ Set(p, IdleProc)
    /\ UNCHANGED <<disk, cwd, now, notRun>>

SeqStep(p) ==
    \/ /\ SeqBegun < MaxSeqRuns
       /\ \E resume \in BOOLEAN : RunStart(p, SeqTask, resume, None)
    \/ /\ proc[p].nEvents = 0
       /\ RunEvent(p, SeqEvent(SeqBegun))
    \/ /\ proc[p].nEvents = 1
       /\ RunStreamEnd(p)
    \/ RunFinally(p)
    \/ RunSave(p)
    \/ RunReturn(p)
    \/ RunAgain(p)

SeqInit ==
    /\ IdleExcept("run")
    /\ disk = [n \in Names |-> NoFile]
    /\ cwd = HOME
    /\ now = SeqStart
    /\ proc = [p \in Procs |-> IdleProc]

SeqNext == SeqStep(1)

SeqSpec == SeqInit /\ [][SeqNext]_vars

\* Executions whose record has been saved
SeqSaved == (now - SeqStart) \div 2

\* The record the i-th execution saves
SeqRecord(i) ==
    [started_at |-> SeqStart + 2 * (i - 1),
     completed_at |-> SeqStart + 2 * (i - 1) + 1,
     ok |-> SeqEvent(i).ok,
     duration_ms |-> 1000,
     usage |-> NoUsage,
     error |-> SeqEvent(i).error]

\* C36: after n sequential executions of one task the persisted history
\* holds min(n, max_runs) records, the records of the most recent executions
\* in execution order with the latest last, and it never exceeds max_runs.
C36_BoundedHistory ==
    LET n == SeqSaved
        runs == disk[SeqTask].runs
        kept == Min(n, MAX_RUNS)
    IN  /\ Len(runs) = kept
        /\ Len(runs) <= MAX_RUNS
        /\ \A k \in 1..kept : runs[k] = SeqRecord(n - kept + k)
        /\ n > 0 => disk[SeqTask].last_run_at = SeqRecord(n).completed_at

\* More executions than max_runs have been saved: the oldest are gone
C36_Witness ==
    /\ SeqSaved > MAX_RUNS
    /\ proc[1].pc = "returned"
    /\ Len(disk[SeqTask].runs) = MAX_RUNS
    /\ disk[SeqTask].runs[1] = SeqRecord(SeqSaved - MAX_RUNS + 1)
    /\ disk[SeqTask].runs[1].started_at > SeqStart

\* ------------------------------------------------------------------------
\* Tasks and their state files
\* ------------------------------------------------------------------------
\* Execution p takes a step
Acts(p) == proc'[p] # proc[p]

\* C37: a step of an execution of task A leaves the persisted state (resume
\* value, last-run timestamp, history) of every other task name B unchanged,
\* also when executions interleave.
C37_IsolatedByName ==
    [][\A p \in Procs, B \in Names :
          (Acts(p) /\ proc'[p].name # B) => disk'[B] = disk[B]]_vars

\* What the code does ensure: the state of B is unchanged by the executions
\* of every task whose state path differs from B's
IsolatedByPath ==
    [][\A p \in Procs, B \in Names :
          (Acts(p) /\ StatePath(proc'[p].name) # StatePath(B))
              => disk'[B] = disk[B]]_vars

\* ------------------------------------------------------------------------
\* The resume value across a run
\* ------------------------------------------------------------------------
\* C38: the resume value a run persists and returns is the value of the last
\* resume-bearing event it consumed; if it consumed none, it is the value
\* persisted before the run, also for a fresh run (resume = False) and for a
\* run ended by an exception; a persisted value is never cleared.
C38_ResumeValueKept ==
    /\ [][\A p \in Procs : Persists(p) =>
            LET before == disk[proc[p].name].session_id
                after == disk'[proc[p].name].session_id
            IN  /\ after = IF proc[p].seen_resume # None
                           THEN proc[p].seen_resume ELSE before
                /\ before # None => after # None]_vars
    /\ [](\A p \in Procs : proc[p].pc = "returned" =>
            proc[p].result.session_id = disk[proc[p].name].session_id)

\* A fresh run that ended with an exception before any event kept the value
\* that was persisted
C38_Witness ==
    \E p \in Procs :
        /\ proc[p].pc = "returned"
        /\ ~proc[p].resume
        /\ proc[p].raised # NoneSeq
        /\ proc[p].seen_resume = None
        /\ proc[p].result.session_id = "s0"
        /\ disk[proc[p].name].session_id = "s0"

\* ------------------------------------------------------------------------
\* Two executions of one task at once
\* ------------------------------------------------------------------------
\* C39: nothing serialises load, append and save: an execution saves the
\* history it loaded at its start plus its own record, and its own resume
\* value, whatever another execution of the same task has saved meanwhile;
\* so two concurrent executions can leave one new record instead of two and
\* the resume value of one of them overwritten (the state of C39_Witness).
C39_LastWriterWins ==
    [][\A p \in Procs : Persists(p) =>
          LET file == disk'[StateFile(disk, proc[p].name)]
          IN  /\ file.runs # <<>>
              /\ SubSeq(file.runs, 1, Len(file.runs) - 1) = proc[p].state.runs
              /\ Last(file.runs).started_at = proc[p].started_at
              /\ file.session_id = proc[p].session_id]_vars

\* Both executions of task "a" have saved and returned, the task had no
\* state before, the history holds a single record, and execution 1 returned
\* the resume value "s1" while the file holds "s2"
C39_Witness ==
    /\ \A p \in Procs :
          /\ proc[p].pc = "returned"
          /\ proc[p].name = <<"a">>
          /\ proc[p].saves = 1
    /\ Len(disk[<<"a">>].runs) = 1
    /\ disk[<<"a">>].runs[1].started_at > 2 * MAX_RUNS
    /\ proc[1].result.session_id = "s1"
    /\ proc[2].result.session_id = "s2"
    /\ disk[<<"a">>].session_id = "s2"

\* ------------------------------------------------------------------------
\* The offset of _poll_for_reply and what it returns
\* ------------------------------------------------------------------------
\* The response to the request in flight is gone through in this step
UpdatesStep == poll.pc = "request" /\ poll'.pc # "backoff" /\ poll'.fault = None

\* What the code does ensure of the offset: a request carries no offset
\* before the first update and the last update id plus one afterwards, the
\* offset never moves back, and every update gone through has a higher id
\* than all before it
OffsetExclusive ==
    /\ [](poll.pc = "request" =>
            poll.param_offset = IF poll.seen_max = 0 THEN NoneInt
                                ELSE poll.seen_max + 1)
    /\ [][/\ poll'.offset >= poll.offset
          /\ (UpdatesStep /\ poll'.seen_max # poll.seen_max)
                 => ResponseFrom > poll.seen_max
          /\ (UpdatesStep /\ poll'.seen_max = poll.seen_max)
                 => ResponseFrom = poll'.next_id]_vars

\* C40: the offset is exclusive and only moves forward: after update u has
\* been gone through every later request carries offset u + 1 and no update
\* is gone through twice; an update from another chat, or one that is not on
\* the awaited message, moves the offset but is never what the call returns.
C40_OffsetAndReply ==
    /\ OffsetExclusive
    /\ [](poll.pc = "returned" /\ poll.result # None =>
            /\ poll.returned_update.chat = "this"
            /\ poll.returned_update.target = "awaited")

\* A click in another chat on a message that carries the awaited id was
\* returned after updates had moved the offset
StrayClickReturned ==
    /\ poll.pc = "returned"
    /\ poll.result = "stray"
    /\ poll.returned_update.chat = "other"
    /\ poll.seen_max > 1

====
